---- MODULE Spec2Model ----
(***************************************************************************)
(* The interactive crop selector of labelcrop (src/labelcrop/lbl.py):      *)
(* class PDFLabelSelector, its event handlers and its geometry.            *)
(*                                                                         *)
(* Numbers.  The program computes with Python floats; the model computes   *)
(* with exact rationals <<n, d>> (d >= 1, lowest terms), i.e. it leaves    *)
(* out binary rounding.  Pointer coordinates and canvas sizes are integers *)
(* as Tk delivers them.  None is the empty tuple <<>>, except for          *)
(* resize_edges, where None is the empty set (get_resize_edges never       *)
(* returns a dict without a true entry).                                   *)
(***************************************************************************)
EXTENDS Integers, Sequences, FiniteSets, TLC

VARIABLES
    page,               \* <<page.rect.width, page.rect.height>>, points
    winfo,              \* <<canvas.winfo_width(), canvas.winfo_height()>>
    canvas_width, canvas_height,
    scale, image_x0, image_y0, image_width, image_height,
    rect,               \* <<x1, y1, x2, y2>> of rationals
    drag_mode,          \* "none" | "move" | "resize"
    resize_edges,       \* subset of {"left","right","top","bottom"}
    drag_start,         \* <<>> or <<x, y>> (integers)
    aspect_ratio,       \* <<>> or a rational
    forced_dimensions,  \* <<>> or <<width_pts, height_pts>>
    mode_var,           \* "Freeform" | "Force Aspect Ratio" | "Force Dimensions"
    ratio_var, dim_w_var, dim_h_var,   \* entry texts
    dim_w_unit, dim_h_unit,            \* "in" | "cm" | "pt" | "px"
    cursor,             \* canvas cursor name
    resize_job,         \* 0 (None) or the id of the scheduled commit
    after_queue,        \* ids of the callbacks Tk still has scheduled
    next_after,         \* next id root.after hands out
    crop_data,          \* <<>> or the record written to crop_data.cfg
    writes,             \* number of times crop_data.cfg was written
    closed,             \* root.destroy() was called
    button1,            \* pointer button 1 is held down (Tk's event state)
    pointer_left,       \* pointer events the environment may still deliver
    edits_left,         \* texts the user may still type
    commits_left,       \* mode, entry and unit commands still to come
    resizes_left,       \* <Configure> notifications still to come
    steps_left,         \* events of any kind still to come
    argv,               \* sys.argv of the run of main
    entry_point,        \* "labelcrop" | "label_crop": the package whose main runs
    pc,                 \* where main is: "start" | "loaded" | "angle" |
                        \* "cropped" | "rotated" | "interactive" | "exit"
    angle,              \* <<>> or the integer int(sys.argv[3]) gave
    output_pdf,         \* "absent" | "cropped" | "rotated": the output file
    pdf_log,            \* the PDF files read and written so far, in order
    exit_code           \* <<>> while main runs, then the exit status

geom == <<canvas_width, canvas_height, scale, image_x0, image_y0,
          image_width, image_height>>
gesture == <<drag_mode, resize_edges, drag_start>>
constraint == <<aspect_ratio, forced_dimensions>>
fields == <<ratio_var, dim_w_var, dim_h_var>>
units == <<dim_w_unit, dim_h_unit>>
timers == <<resize_job, after_queue, next_after>>
output == <<crop_data, writes, closed>>
counts == <<pointer_left, edits_left, commits_left, resizes_left, steps_left>>
command == <<argv, entry_point, pc, angle, output_pdf, pdf_log, exit_code>>
vars == <<command, page, winfo, geom, rect, gesture, constraint, mode_var, fields,
          units, cursor, timers, output, button1, counts>>

None == <<>>

----------------------------------------------------------------------------
(* Exact rational arithmetic standing for float arithmetic.                *)
(* TLC computes with 32-bit integers: a result whose numerator or          *)
(* denominator would pass MaxNum is Big, every operation on Big is Big,    *)
(* and no handler step that would store Big is taken (Representable).      *)

MaxNum == 1000000000

Big == <<1, 0>>
IsBig(a) == a[2] = 0

RECURSIVE GCD(_, _)
GCD(a, b) == IF b = 0 THEN a ELSE GCD(b, a % b)

IAbs(i) == IF i < 0 THEN -i ELSE i

\* |x| * y stays within MaxNum (y > 0)
FitsMul(x, y) == IAbs(x) <= MaxNum \div y

Norm(n, d) ==
    IF n = 0 THEN <<0, 1>>
    ELSE IF d = 1 THEN <<n, 1>>
    ELSE LET g == GCD(IAbs(n), d) IN <<n \div g, d \div g>>

R(i) == <<i, 1>>
Frac(n, d) == Norm(n, d)

RNeg(a) == IF IsBig(a) THEN Big ELSE <<-a[1], a[2]>>

RAdd(a, b) ==
    IF IsBig(a) \/ IsBig(b) THEN Big
    ELSE LET g == IF a[2] = b[2] THEN a[2] ELSE GCD(a[2], b[2])
             da == a[2] \div g
             db == b[2] \div g
         IN  IF FitsMul(a[1], db) /\ FitsMul(b[1], da) /\ FitsMul(da, b[2])
             THEN Norm(a[1] * db + b[1] * da, da * b[2])
             ELSE Big

RSub(a, b) == RAdd(a, RNeg(b))

RMul(a, b) ==
    IF IsBig(a) \/ IsBig(b) THEN Big
    ELSE IF a[1] = 0 \/ b[1] = 0 THEN <<0, 1>>
    ELSE LET g1 == IF b[2] = 1 THEN 1 ELSE GCD(IAbs(a[1]), b[2])
             g2 == IF a[2] = 1 THEN 1 ELSE GCD(IAbs(b[1]), a[2])
         IN  IF /\ FitsMul(a[1] \div g1, IAbs(b[1] \div g2))
                /\ FitsMul(a[2] \div g2, b[2] \div g1)
             THEN <<(a[1] \div g1) * (b[1] \div g2),
                    (a[2] \div g2) * (b[2] \div g1)>>
             ELSE Big

RInv(a) ==
    IF IsBig(a) THEN Big
    ELSE IF a[1] < 0 THEN <<-a[2], -a[1]>> ELSE <<a[2], a[1]>>

\* a / b for b # 0 (every division of the program is by a nonzero value)
RDiv(a, b) == RMul(a, RInv(b))

\* the order of n1/d1 and n2/d2 (-1, 0, 1), by continued fractions: no
\* product is formed
RECURSIVE Cmp(_, _, _, _)
Cmp(n1, d1, n2, d2) ==
    LET q1 == n1 \div d1
        q2 == n2 \div d2
        r1 == n1 % d1
        r2 == n2 % d2
    IN  IF q1 < q2 THEN -1
        ELSE IF q1 > q2 THEN 1
        ELSE IF r1 = 0 /\ r2 = 0 THEN 0
        ELSE IF r1 = 0 THEN -1
        ELSE IF r2 = 0 THEN 1
        ELSE Cmp(d2, r2, d1, r1)

RCmp(a, b) == Cmp(a[1], a[2], b[1], b[2])

RLe(a, b) == RCmp(a, b) <= 0
RLt(a, b) == RCmp(a, b) < 0
RGt(a, b) == RCmp(a, b) > 0
RGe(a, b) == RCmp(a, b) >= 0

RMin(a, b) == IF IsBig(a) \/ IsBig(b) THEN Big ELSE IF RLe(a, b) THEN a ELSE b
RMax(a, b) == IF IsBig(a) \/ IsBig(b) THEN Big ELSE IF RGe(a, b) THEN a ELSE b
RAbs(a) == <<IAbs(a[1]), a[2]>>
RHalf(a) == RDiv(a, R(2))

\* Python truthiness of a float-or-None: None and 0.0 are false
Truthy(v) == v # None /\ v[1] # 0

\* a tuple of numbers none of which is Big
Representable(t) == \A i \in DOMAIN t : ~IsBig(t[i])

----------------------------------------------------------------------------
(* Program constants.                                                      *)

handle_size == 6
min_size == 10
SigDigits == 6

POINTS_PER_INCH == R(72)
POINTS_PER_CM == RDiv(POINTS_PER_INCH, Frac(254, 100))

----------------------------------------------------------------------------
(* Entry texts.  A text is known by the way the parsers read it: empty,    *)
(* a float literal ("num", its value in a), two float literals joined by   *)
(* one of "x", ":", "/" ("pair"), or anything else ("junk").               *)

EmptyText == [kind |-> "empty", a |-> R(0), b |-> R(0)]
JunkText == [kind |-> "junk", a |-> R(0), b |-> R(0)]
NumText(v) == [kind |-> "num", a |-> v, b |-> R(1)]
PairText(w, h) == [kind |-> "pair", a |-> w, b |-> h]

parse_aspect_ratio(text) ==
    CASE text.kind = "empty" -> None
      [] text.kind = "pair" ->
            IF RGt(text.a, R(0)) /\ RGt(text.b, R(0))
            THEN RDiv(text.a, text.b) ELSE None
      [] text.kind = "num" ->
            IF RGt(text.a, R(0)) THEN text.a ELSE None
      [] OTHER -> None

parse_float(text) == IF text.kind = "num" THEN text.a ELSE None

unit_to_points(value, unit) ==
    IF value = None THEN None
    ELSE CASE unit = "in" -> RMul(value, POINTS_PER_INCH)
           [] unit = "cm" -> RMul(value, POINTS_PER_CM)
           [] unit = "pt" -> value
           [] unit = "px" -> value
           [] OTHER -> None

points_to_unit(value, unit) ==
    IF value = None THEN None
    ELSE CASE unit = "in" -> RDiv(value, POINTS_PER_INCH)
           [] unit = "cm" -> RDiv(value, POINTS_PER_CM)
           [] unit = "pt" -> value
           [] unit = "px" -> value
           [] OTHER -> None

\* 10^k for k in 0..9
Pow10(k) ==
    <<1, 10, 100, 1000, 10000, 100000, 1000000, 10000000, 100000000,
      1000000000>>[k + 1]

\* long division of n/d (0 < n) until the quotient has SigDigits digits:
\* <<quotient, remainder, decimals>>
RECURSIVE SigScale(_, _, _, _)
SigScale(q, r, d, e) ==
    IF q >= Pow10(SigDigits - 1) THEN <<q, r, e>>
    ELSE SigScale(q * 10 + ((r * 10) \div d), (r * 10) % d, d, e + 1)

\* the value of the text f"{v:.6g}": v >= 0 rounded to six significant
\* digits (half to even); Big outside 10^-4 <= v < 10^6
Format6g(v) ==
    IF v[1] = 0 THEN NumText(R(0))
    ELSE IF \/ IsBig(v) \/ ~FitsMul(v[2], 10)
            \/ v[1] \div v[2] >= Pow10(SigDigits)
            \/ v[1] <= (v[2] - 1) \div 10000
    THEN NumText(Big)
    ELSE LET s == SigScale(v[1] \div v[2], v[1] % v[2], v[2], 0)
             up == (2 * s[2] > v[2]) \/ (2 * s[2] = v[2] /\ s[1] % 2 = 1)
         IN  NumText(Norm(s[1] + (IF up THEN 1 ELSE 0), Pow10(s[3])))

----------------------------------------------------------------------------
(* Page geometry.                                                          *)

\* render_page: the fields it assigns, from the canvas size and the page
render_page(win, pg) ==
    LET cw == IF win[1] > 1 THEN win[1] ELSE 1
        ch == IF win[2] > 1 THEN win[2] ELSE 1
        sc == RMin(RDiv(R(cw), R(pg[1])), RDiv(R(ch), R(pg[2])))
        iw == RMul(R(pg[1]), sc)
        ih == RMul(R(pg[2]), sc)
    IN  [canvas_width |-> cw, canvas_height |-> ch, scale |-> sc,
         image_width |-> iw, image_height |-> ih,
         image_x0 |-> RHalf(RSub(R(cw), iw)),
         image_y0 |-> RHalf(RSub(R(ch), ih))]

\* the geometry the object currently holds, as render_page left it
Geom ==
    [canvas_width |-> canvas_width, canvas_height |-> canvas_height,
     scale |-> scale, image_width |-> image_width,
     image_height |-> image_height, image_x0 |-> image_x0,
     image_y0 |-> image_y0]

left_bound(g) == g.image_x0
right_bound(g) == RAdd(g.image_x0, g.image_width)
top_bound(g) == g.image_y0
bottom_bound(g) == RAdd(g.image_y0, g.image_height)

\* keep_size: the far edge is cut at the bound instead of following x1, y1
clamp_rect_cutting_far_edge(r, g, keep_size) ==
    IF keep_size
    THEN LET w == RSub(r[3], r[1])
             h == RSub(r[4], r[2])
             x1 == RMin(RMax(r[1], left_bound(g)), RSub(right_bound(g), w))
             y1 == RMin(RMax(r[2], top_bound(g)), RSub(bottom_bound(g), h))
         IN  <<RMax(x1, left_bound(g)), RMax(y1, top_bound(g)),
               RAdd(x1, w), RAdd(y1, h)>>
    ELSE <<RMax(left_bound(g), RMin(r[1], right_bound(g))),
           RMax(top_bound(g), RMin(r[2], bottom_bound(g))),
           RMax(left_bound(g), RMin(r[3], right_bound(g))),
           RMax(top_bound(g), RMin(r[4], bottom_bound(g)))>>

\* not keep_size: x1, y1 are only raised and x2, y2 only lowered
clamp_rect_one_sided(r, g, keep_size) ==
    IF keep_size
    THEN LET w == RSub(r[3], r[1])
             h == RSub(r[4], r[2])
             x1 == RMin(RMax(r[1], left_bound(g)), RSub(right_bound(g), w))
             y1 == RMin(RMax(r[2], top_bound(g)), RSub(bottom_bound(g), h))
         IN  <<x1, y1, RAdd(x1, w), RAdd(y1, h)>>
    ELSE <<RMax(left_bound(g), r[1]),
           RMax(top_bound(g), r[2]),
           RMin(r[3], right_bound(g)),
           RMin(r[4], bottom_bound(g))>>

clamp_rect(r, g, keep_size) ==
    IF keep_size
    THEN LET w == RSub(r[3], r[1])
             h == RSub(r[4], r[2])
             x1 == RMin(RMax(r[1], left_bound(g)), RSub(right_bound(g), w))
             y1 == RMin(RMax(r[2], top_bound(g)), RSub(bottom_bound(g), h))
         IN  <<x1, y1, RAdd(x1, w), RAdd(y1, h)>>
    ELSE <<RMax(left_bound(g), RMin(r[1], right_bound(g))),
           RMax(top_bound(g), RMin(r[2], bottom_bound(g))),
           RMax(left_bound(g), RMin(r[3], right_bound(g))),
           RMax(top_bound(g), RMin(r[4], bottom_bound(g)))>>

\* the default size is never shrunk to the image
create_default_rect_without_fit(g) ==
    LET dw == RMul(RMul(R(4), POINTS_PER_INCH), g.scale)
        dh == RMul(RMul(R(6), POINTS_PER_INCH), g.scale)
        cx == RAdd(g.image_x0, RHalf(g.image_width))
        cy == RAdd(g.image_y0, RHalf(g.image_height))
    IN  <<RSub(cx, RHalf(dw)), RSub(cy, RHalf(dh)),
          RAdd(cx, RHalf(dw)), RAdd(cy, RHalf(dh))>>

create_default_rect(g) ==
    LET dw0 == RMul(RMul(R(4), POINTS_PER_INCH), g.scale)
        dh0 == RMul(RMul(R(6), POINTS_PER_INCH), g.scale)
        fit == IF RGt(dw0, R(0)) /\ RGt(dh0, R(0))
               THEN RMin(RMin(RDiv(g.image_width, dw0),
                              RDiv(g.image_height, dh0)), R(1))
               ELSE R(1)
        dw == RMul(dw0, fit)
        dh == RMul(dh0, fit)
        cx == RAdd(g.image_x0, RHalf(g.image_width))
        cy == RAdd(g.image_y0, RHalf(g.image_height))
    IN  <<RSub(cx, RHalf(dw)), RSub(cy, RHalf(dh)),
          RAdd(cx, RHalf(dw)), RAdd(cy, RHalf(dh))>>

\* update_fields_from_rect: the three entry texts it leaves
update_fields_from_rect(r, sc, wunit, hunit) ==
    LET width_pts == RDiv(RAbs(RSub(r[3], r[1])), sc)
        height_pts == RDiv(RAbs(RSub(r[4], r[2])), sc)
        ratio == IF height_pts[1] # 0 THEN RDiv(width_pts, height_pts) ELSE R(0)
    IN  <<IF ratio[1] # 0 \/ IsBig(height_pts) THEN Format6g(ratio)
          ELSE EmptyText,
          Format6g(points_to_unit(width_pts, wunit)),
          Format6g(points_to_unit(height_pts, hunit))>>

----------------------------------------------------------------------------
(* Constraint projection.                                                  *)

\* the two branches exchanged: the short side grows to reach the ratio
apply_aspect_ratio_to_rect_growing(r, ratio, g) ==
    IF ~Truthy(ratio) THEN r
    ELSE LET center_x == RHalf(RAdd(r[1], r[3]))
             center_y == RHalf(RAdd(r[2], r[4]))
             width0 == RAbs(RSub(r[3], r[1]))
             height0 == RAbs(RSub(r[4], r[2]))
             height1 == IF height0[1] = 0 THEN R(1) ELSE height0
             quot == RDiv(width0, height1)
             wide == RGt(quot, ratio)
             width == IF IsBig(quot) THEN Big
                      ELSE IF wide THEN width0 ELSE RMul(height1, ratio)
             height == IF IsBig(quot) THEN Big
                       ELSE IF wide THEN RDiv(width0, ratio) ELSE height1
         IN  clamp_rect(<<RSub(center_x, RHalf(width)),
                          RSub(center_y, RHalf(height)),
                          RAdd(center_x, RHalf(width)),
                          RAdd(center_y, RHalf(height))>>, g, TRUE)

\* the else branch divides the height, not the width, by the ratio
apply_aspect_ratio_to_rect_dividing_height(r, ratio, g) ==
    IF ~Truthy(ratio) THEN r
    ELSE LET center_x == RHalf(RAdd(r[1], r[3]))
             center_y == RHalf(RAdd(r[2], r[4]))
             width0 == RAbs(RSub(r[3], r[1]))
             height0 == RAbs(RSub(r[4], r[2]))
             height1 == IF height0[1] = 0 THEN R(1) ELSE height0
             quot == RDiv(width0, height1)
             wide == RGt(quot, ratio)
             width == IF IsBig(quot) THEN Big
                      ELSE IF wide THEN RMul(height1, ratio) ELSE width0
             height == IF IsBig(quot) THEN Big
                       ELSE IF wide THEN height1 ELSE RDiv(height1, ratio)
         IN  clamp_rect(<<RSub(center_x, RHalf(width)),
                          RSub(center_y, RHalf(height)),
                          RAdd(center_x, RHalf(width)),
                          RAdd(center_y, RHalf(height))>>, g, TRUE)

apply_aspect_ratio_to_rect(r, ratio, g) ==
    IF ~Truthy(ratio) THEN r
    ELSE LET center_x == RHalf(RAdd(r[1], r[3]))
             center_y == RHalf(RAdd(r[2], r[4]))
             width0 == RAbs(RSub(r[3], r[1]))
             height0 == RAbs(RSub(r[4], r[2]))
             height1 == IF height0[1] = 0 THEN R(1) ELSE height0
             quot == RDiv(width0, height1)
             wide == RGt(quot, ratio)
             width == IF IsBig(quot) THEN Big
                      ELSE IF wide THEN RMul(height1, ratio) ELSE width0
             height == IF IsBig(quot) THEN Big
                       ELSE IF wide THEN height1 ELSE RDiv(width0, ratio)
         IN  clamp_rect(<<RSub(center_x, RHalf(width)),
                          RSub(center_y, RHalf(height)),
                          RAdd(center_x, RHalf(width)),
                          RAdd(center_y, RHalf(height))>>, g, TRUE)

\* the forced size capped at the page image instead of the canvas
forced_size_capped_at_image(fd, g) ==
    <<RMin(RMul(fd[1], g.scale), g.image_width),
      RMin(RMul(fd[2], g.scale), g.image_height)>>

\* the canvas size a fixed-dimension constraint asks for
forced_size(fd, g) ==
    <<RMin(RMul(fd[1], g.scale), R(g.canvas_width)),
      RMin(RMul(fd[2], g.scale), R(g.canvas_height))>>

apply_forced_dimensions_to_rect(r, fd, g) ==
    IF fd = None THEN r
    ELSE LET sz == forced_size(fd, g)
             center_x == RHalf(RAdd(r[1], r[3]))
             center_y == RHalf(RAdd(r[2], r[4]))
         IN  clamp_rect(<<RSub(center_x, RHalf(sz[1])),
                          RSub(center_y, RHalf(sz[2])),
                          RAdd(center_x, RHalf(sz[1])),
                          RAdd(center_y, RHalf(sz[2]))>>, g, TRUE)

\* the ratio branch leaves the stored dimensions as they were
apply_constraints_keeping_dimensions(mode, rtext, wtext, htext, wunit, hunit, r, g) ==
    CASE mode = "Force Aspect Ratio" ->
            LET ratio == parse_aspect_ratio(rtext)
            IN  IF ~Truthy(ratio)
                THEN [aspect_ratio |-> None, forced_dimensions |-> None,
                      rect |-> r, touched |-> FALSE]
                ELSE [aspect_ratio |-> ratio,
                      forced_dimensions |-> forced_dimensions,
                      rect |-> apply_aspect_ratio_to_rect(r, ratio, g),
                      touched |-> TRUE]
      [] mode = "Force Dimensions" ->
            LET width == unit_to_points(parse_float(wtext), wunit)
                height == unit_to_points(parse_float(htext), hunit)
            IN  IF ~Truthy(width) \/ ~Truthy(height)
                THEN [aspect_ratio |-> None, forced_dimensions |-> None,
                      rect |-> r, touched |-> FALSE]
                ELSE [aspect_ratio |-> None,
                      forced_dimensions |-> <<width, height>>,
                      rect |-> apply_forced_dimensions_to_rect(
                                   r, <<width, height>>, g),
                      touched |-> TRUE]
      [] OTHER ->
            [aspect_ratio |-> None, forced_dimensions |-> None,
             rect |-> r, touched |-> FALSE]

\* apply_constraints: what it leaves in aspect_ratio, forced_dimensions and
\* rect; touched says whether update_rect ran
apply_constraints(mode, rtext, wtext, htext, wunit, hunit, r, g) ==
    CASE mode = "Force Aspect Ratio" ->
            LET ratio == parse_aspect_ratio(rtext)
            IN  IF ~Truthy(ratio)
                THEN [aspect_ratio |-> None, forced_dimensions |-> None,
                      rect |-> r, touched |-> FALSE]
                ELSE [aspect_ratio |-> ratio, forced_dimensions |-> None,
                      rect |-> apply_aspect_ratio_to_rect(r, ratio, g),
                      touched |-> TRUE]
      [] mode = "Force Dimensions" ->
            LET width == unit_to_points(parse_float(wtext), wunit)
                height == unit_to_points(parse_float(htext), hunit)
            IN  IF ~Truthy(width) \/ ~Truthy(height)
                THEN [aspect_ratio |-> None, forced_dimensions |-> None,
                      rect |-> r, touched |-> FALSE]
                ELSE [aspect_ratio |-> None,
                      forced_dimensions |-> <<width, height>>,
                      rect |-> apply_forced_dimensions_to_rect(
                                   r, <<width, height>>, g),
                      touched |-> TRUE]
      [] OTHER ->
            [aspect_ratio |-> None, forced_dimensions |-> None,
             rect |-> r, touched |-> FALSE]

----------------------------------------------------------------------------
(* Hit testing.                                                            *)

\* a hit test that also accepts the handle margin around the rectangle
is_inside_rect_with_margin(r, x, y) ==
    /\ RLe(RSub(r[1], R(handle_size)), R(x))
    /\ RLe(R(x), RAdd(r[3], R(handle_size)))
    /\ RLe(RSub(r[2], R(handle_size)), R(y))
    /\ RLe(R(y), RAdd(r[4], R(handle_size)))

is_inside_rect(r, x, y) ==
    /\ RLe(r[1], R(x)) /\ RLe(R(x), r[3])
    /\ RLe(r[2], R(y)) /\ RLe(R(y), r[4])

near(p, edge) == RLe(RAbs(RSub(R(p), edge)), R(handle_size))

\* the edges get_resize_edges marks true; {} where it returns None
get_resize_edges(r, x, y) ==
    (IF near(x, r[1]) THEN {"left"} ELSE {})
    \cup (IF near(x, r[3]) THEN {"right"} ELSE {})
    \cup (IF near(y, r[2]) THEN {"top"} ELSE {})
    \cup (IF near(y, r[4]) THEN {"bottom"} ELSE {})

cursor_for_edges(edges) ==
    LET horiz == "left" \in edges \/ "right" \in edges
        vert == "top" \in edges \/ "bottom" \in edges
    IN  IF horiz /\ vert THEN "fleur"
        ELSE IF horiz THEN "sb_h_double_arrow"
        ELSE IF vert THEN "sb_v_double_arrow"
        ELSE "cross"

\* update_cursor: the cursor it sets (the first choice of set_cursor)
update_cursor(r, mode, edges, x, y) ==
    IF mode = "move" THEN "hand2"
    ELSE IF mode = "resize" /\ edges # {} THEN cursor_for_edges(edges)
    ELSE IF ~is_inside_rect(r, x, y) THEN "arrow"
    ELSE IF get_resize_edges(r, x, y) # {}
         THEN cursor_for_edges(get_resize_edges(r, x, y))
    ELSE "hand2"

----------------------------------------------------------------------------
(* Resizing by the dragged edges.                                          *)

resize_forced(r, edges, cursor_x, cursor_y, fd, g) ==
    LET sz == forced_size(fd, g)
        cx == R(cursor_x)
        cy == R(cursor_y)
        xa == IF "left" \in edges THEN <<cx, RAdd(cx, sz[1])>>
              ELSE <<r[1], r[3]>>
        xb == IF "right" \in edges THEN <<RSub(cx, sz[1]), cx>> ELSE xa
        ya == IF "top" \in edges THEN <<cy, RAdd(cy, sz[2])>>
              ELSE <<r[2], r[4]>>
        yb == IF "bottom" \in edges THEN <<RSub(cy, sz[2]), cy>> ELSE ya
    IN  clamp_rect(<<xb[1], yb[1], xb[2], yb[2]>>, g, TRUE)

\* the active edges follow the pointer with no min_size distance kept
resize_edges_free_unlimited(r, edges, cursor_x, cursor_y) ==
    <<IF "left" \in edges THEN R(cursor_x) ELSE r[1],
      IF "top" \in edges THEN R(cursor_y) ELSE r[2],
      IF "right" \in edges THEN R(cursor_x) ELSE r[3],
      IF "bottom" \in edges THEN R(cursor_y) ELSE r[4]>>

\* lines 557-564: each active edge follows the pointer, min_size apart
resize_edges_free(r, edges, cursor_x, cursor_y) ==
    LET x1 == IF "left" \in edges
              THEN RMin(R(cursor_x), RSub(r[3], R(min_size))) ELSE r[1]
        x2 == IF "right" \in edges
              THEN RMax(R(cursor_x), RAdd(x1, R(min_size))) ELSE r[3]
        y1 == IF "top" \in edges
              THEN RMin(R(cursor_y), RSub(r[4], R(min_size))) ELSE r[2]
        y2 == IF "bottom" \in edges
              THEN RMax(R(cursor_y), RAdd(y1, R(min_size))) ELSE r[4]
    IN  <<x1, y1, x2, y2>>

\* lines 566-604: the ratio correction of the edge-dragged rectangle
resize_aspect(r, edges, cursor_x, cursor_y, ratio) ==
    LET horiz == "left" \in edges \/ "right" \in edges
        vert == "top" \in edges \/ "bottom" \in edges
    IN  IF horiz /\ vert
        THEN LET anchor_x == IF "left" \in edges THEN r[3] ELSE r[1]
                 anchor_y == IF "top" \in edges THEN r[4] ELSE r[2]
                 dx == RSub(R(cursor_x), anchor_x)
                 dy == RSub(R(cursor_y), anchor_y)
                 width0 == RMax(R(min_size), RAbs(dx))
                 height0 == RMax(R(min_size), RAbs(dy))
                 quot == RDiv(width0, height0)
                 wide == RGt(quot, ratio)
                 width == IF IsBig(quot) THEN Big
                          ELSE IF wide THEN width0 ELSE RMul(height0, ratio)
                 height == IF IsBig(quot) THEN Big
                           ELSE IF wide THEN RDiv(width0, ratio) ELSE height0
             IN  <<IF "left" \in edges THEN RSub(anchor_x, width) ELSE anchor_x,
                   IF "top" \in edges THEN RSub(anchor_y, height) ELSE anchor_y,
                   IF "left" \in edges THEN anchor_x ELSE RAdd(anchor_x, width),
                   IF "top" \in edges THEN anchor_y ELSE RAdd(anchor_y, height)>>
        ELSE LET ra == IF horiz
                       THEN LET width == RMax(R(min_size), RAbs(RSub(r[3], r[1])))
                                height == RDiv(width, ratio)
                                center_y == RHalf(RAdd(r[2], r[4]))
                            IN  <<r[1], RSub(center_y, RHalf(height)),
                                  r[3], RAdd(center_y, RHalf(height))>>
                       ELSE r
                 rb == IF vert
                       THEN LET height == RMax(R(min_size), RAbs(RSub(ra[4], ra[2])))
                                width == RMul(height, ratio)
                                center_x == RHalf(RAdd(ra[1], ra[3]))
                            IN  <<RSub(center_x, RHalf(width)), ra[2],
                                  RAdd(center_x, RHalf(width)), ra[4]>>
                       ELSE ra
             IN  rb

resize_rect(r, edges, cursor_x, cursor_y, ratio, fd, g) ==
    IF fd # None THEN resize_forced(r, edges, cursor_x, cursor_y, fd, g)
    ELSE LET free == resize_edges_free(r, edges, cursor_x, cursor_y)
             shaped == IF Truthy(ratio)
                       THEN resize_aspect(free, edges, cursor_x, cursor_y, ratio)
                       ELSE free
         IN  clamp_rect(shaped, g, FALSE)

----------------------------------------------------------------------------
(* Bounds of the model: the pages, canvas sizes, pointer positions and     *)
(* typed texts the environment may supply, and the number of events.       *)

MaxPointer == 3
MaxEdits == 1
MaxCommits == 2
MaxResizes == 2
MaxSteps == 4

FnMaxPointer == 2
FnMaxEdits == 1
FnMaxCommits == 1
FnMaxResizes == 1
FnMaxSteps == 3

Pages == {<<612, 792>>}
Viewports == {<<68, 66>>, <<34, 44>>}
PressPoints == {<<16, 18>>, <<25, 33>>, <<36, 48>>, <<8, 33>>}
DragPoints == {<<4, 6>>, <<30, 40>>, <<60, 33>>}
HoverPoints == {<<16, 18>>, <<25, 33>>}
Modes == {"Freeform", "Force Aspect Ratio", "Force Dimensions"}
Units == {"in", "pt"}
RatioTexts == {NumText(R(2)), PairText(R(1), R(3)), JunkText}
DimTexts == {NumText(R(10)), NumText(R(-2))}

----------------------------------------------------------------------------
(* The session.                                                            *)

SetGeom(g) ==
    /\ canvas_width' = g.canvas_width
    /\ canvas_height' = g.canvas_height
    /\ scale' = g.scale
    /\ image_x0' = g.image_x0
    /\ image_y0' = g.image_y0
    /\ image_width' = g.image_width
    /\ image_height' = g.image_height

\* update_rect: the rectangle and the entry texts refreshed from it
update_rect(r, sc) ==
    LET f == update_fields_from_rect(r, sc, dim_w_unit, dim_h_unit)
    IN  /\ Representable(r)
        /\ Representable(<<f[1].a, f[2].a, f[3].a>>)
        /\ rect' = r
        /\ ratio_var' = f[1]
        /\ dim_w_var' = f[2]
        /\ dim_h_var' = f[3]

\* main called with the input PDF alone: interactive_crop_selector has
\* opened it and no output exists
interactive_mode ==
    /\ argv = <<"labelcrop", "input.pdf">>
    /\ entry_point = "labelcrop"
    /\ pc = "interactive"
    /\ angle = None
    /\ output_pdf = "absent"
    /\ pdf_log = <<"read input">>
    /\ exit_code = None

\* __init__ and init_gui up to mainloop
Init ==
    \E pg \in Pages, vp \in Viewports :
        LET g == render_page(vp, pg)
            r == create_default_rect(g)
            f == update_fields_from_rect(r, g.scale, "in", "in")
        IN  /\ interactive_mode
            /\ page = pg
            /\ winfo = vp
            /\ canvas_width = g.canvas_width
            /\ canvas_height = g.canvas_height
            /\ scale = g.scale
            /\ image_x0 = g.image_x0
            /\ image_y0 = g.image_y0
            /\ image_width = g.image_width
            /\ image_height = g.image_height
            /\ rect = r
            /\ drag_mode = "none"
            /\ resize_edges = {}
            /\ drag_start = None
            /\ aspect_ratio = None
            /\ forced_dimensions = None
            /\ mode_var = "Freeform"
            /\ ratio_var = f[1]
            /\ dim_w_var = f[2]
            /\ dim_h_var = f[3]
            /\ dim_w_unit = "in"
            /\ dim_h_unit = "in"
            /\ cursor = "cross"
            /\ resize_job = 0
            /\ after_queue = {}
            /\ next_after = 1
            /\ crop_data = None
            /\ writes = 0
            /\ closed = FALSE
            /\ button1 = FALSE
            /\ pointer_left = MaxPointer
            /\ edits_left = MaxEdits
            /\ commits_left = MaxCommits
            /\ resizes_left = MaxResizes
            /\ steps_left = MaxSteps

PointerEvent ==
    /\ ~closed
    /\ pointer_left > 0 /\ steps_left > 0
    /\ pointer_left' = pointer_left - 1
    /\ steps_left' = steps_left - 1
    /\ UNCHANGED <<edits_left, commits_left, resizes_left>>

EditEvent ==
    /\ ~closed
    /\ edits_left > 0 /\ steps_left > 0
    /\ edits_left' = edits_left - 1
    /\ steps_left' = steps_left - 1
    /\ UNCHANGED <<pointer_left, commits_left, resizes_left>>

CommitEvent ==
    /\ ~closed
    /\ commits_left > 0 /\ steps_left > 0
    /\ commits_left' = commits_left - 1
    /\ steps_left' = steps_left - 1
    /\ UNCHANGED <<pointer_left, edits_left, resizes_left>>

ResizeEvent ==
    /\ ~closed
    /\ resizes_left > 0 /\ steps_left > 0
    /\ resizes_left' = resizes_left - 1
    /\ steps_left' = steps_left - 1
    /\ UNCHANGED <<pointer_left, edits_left, commits_left>>

\* a press that records its position as the anchor wherever it lands
on_button_press_anchoring_outside(x, y) ==
    /\ PointerEvent
    /\ ~button1
    /\ button1' = TRUE
    /\ IF ~is_inside_rect(rect, x, y)
       THEN /\ drag_start' = <<x, y>>
            /\ UNCHANGED <<drag_mode, resize_edges>>
       ELSE LET edges == get_resize_edges(rect, x, y)
            IN  /\ drag_mode' = (IF edges # {} THEN "resize" ELSE "move")
                /\ resize_edges' = edges
                /\ drag_start' = <<x, y>>
    /\ UNCHANGED <<command, page, winfo, geom, rect, constraint, mode_var, fields,
                   units, cursor, timers, output>>

on_button_press(x, y) ==
    /\ PointerEvent
    /\ ~button1
    /\ button1' = TRUE
    /\ IF ~is_inside_rect(rect, x, y)
       THEN UNCHANGED gesture
       ELSE LET edges == get_resize_edges(rect, x, y)
            IN  /\ drag_mode' = (IF edges # {} THEN "resize" ELSE "move")
                /\ resize_edges' = edges
                /\ drag_start' = <<x, y>>
    /\ UNCHANGED <<command, page, winfo, geom, rect, constraint, mode_var, fields,
                   units, cursor, timers, output>>

\* a move that measures every drag from the press position: the anchor is
\* not advanced
on_mouse_drag_from_press(x, y) ==
    /\ PointerEvent
    /\ button1
    /\ IF drag_mode = "none" \/ drag_start = None
       THEN UNCHANGED <<rect, fields, drag_start>>
       ELSE IF drag_mode = "move"
       THEN LET dx == R(x - drag_start[1])
                dy == R(y - drag_start[2])
            IN  /\ update_rect(clamp_rect(<<RAdd(rect[1], dx), RAdd(rect[2], dy),
                                            RAdd(rect[3], dx), RAdd(rect[4], dy)>>,
                                          Geom, TRUE), scale)
                /\ drag_start' = drag_start
       ELSE /\ update_rect(resize_rect(rect, resize_edges, x, y, aspect_ratio,
                                       forced_dimensions, Geom), scale)
            /\ drag_start' = <<x, y>>
    /\ UNCHANGED <<command, page, winfo, geom, drag_mode, resize_edges, constraint,
                   mode_var, units, cursor, timers, output, button1>>

on_mouse_drag(x, y) ==
    /\ PointerEvent
    /\ button1
    /\ IF drag_mode = "none" \/ drag_start = None
       THEN UNCHANGED <<rect, fields, drag_start>>
       ELSE IF drag_mode = "move"
       THEN LET dx == R(x - drag_start[1])
                dy == R(y - drag_start[2])
            IN  /\ update_rect(clamp_rect(<<RAdd(rect[1], dx), RAdd(rect[2], dy),
                                            RAdd(rect[3], dx), RAdd(rect[4], dy)>>,
                                          Geom, TRUE), scale)
                /\ drag_start' = <<x, y>>
       ELSE /\ update_rect(resize_rect(rect, resize_edges, x, y, aspect_ratio,
                                       forced_dimensions, Geom), scale)
            /\ drag_start' = <<x, y>>
    /\ UNCHANGED <<command, page, winfo, geom, drag_mode, resize_edges, constraint,
                   mode_var, units, cursor, timers, output, button1>>

\* a release that forgets to clear the edge set
on_button_release_keeps_edges(x, y) ==
    /\ PointerEvent
    /\ button1
    /\ button1' = FALSE
    /\ drag_mode' = "none"
    /\ drag_start' = None
    /\ cursor' = update_cursor(rect, "none", {}, x, y)
    /\ UNCHANGED <<command, page, winfo, geom, rect, resize_edges, constraint,
                   mode_var, fields, units, timers, output>>

\* a release that also writes the crop record, as a selector that emits on
\* every finished gesture would
on_button_release_emitting(x, y) ==
    /\ PointerEvent
    /\ button1
    /\ button1' = FALSE
    /\ drag_mode' = "none"
    /\ resize_edges' = {}
    /\ drag_start' = None
    /\ cursor' = update_cursor(rect, "none", {}, x, y)
    /\ crop_data' = rect
    /\ writes' = writes + 1
    /\ UNCHANGED <<command, page, winfo, geom, rect, constraint, mode_var, fields,
                   units, timers, closed>>

on_button_release(x, y) ==
    /\ PointerEvent
    /\ button1
    /\ button1' = FALSE
    /\ drag_mode' = "none"
    /\ resize_edges' = {}
    /\ drag_start' = None
    /\ cursor' = update_cursor(rect, "none", {}, x, y)
    /\ UNCHANGED <<command, page, winfo, geom, rect, constraint, mode_var, fields,
                   units, timers, output>>

on_mouse_move(x, y) ==
    /\ PointerEvent
    /\ ~button1
    /\ cursor' = update_cursor(rect, drag_mode, resize_edges, x, y)
    /\ UNCHANGED <<command, page, winfo, geom, rect, gesture, constraint, mode_var,
                   fields, units, timers, output, button1>>

on_mouse_leave ==
    /\ PointerEvent
    /\ cursor' = "arrow"
    /\ UNCHANGED <<command, page, winfo, geom, rect, gesture, constraint, mode_var,
                   fields, units, timers, output, button1>>

\* the body shared by on_mode_change and on_entry_commit
ApplyConstraints(mode) ==
    LET c == apply_constraints(mode, ratio_var, dim_w_var, dim_h_var,
                               dim_w_unit, dim_h_unit, rect, Geom)
    IN  /\ c.aspect_ratio # None => ~IsBig(c.aspect_ratio)
        /\ Representable(c.forced_dimensions)
        /\ aspect_ratio' = c.aspect_ratio
        /\ forced_dimensions' = c.forced_dimensions
        /\ IF c.touched THEN update_rect(c.rect, scale)
           ELSE UNCHANGED <<rect, fields>>

\* a mode change that also abandons the gesture in progress
on_mode_change_ends_gesture(mode) ==
    /\ CommitEvent
    /\ mode_var' = mode
    /\ ApplyConstraints(mode)
    /\ drag_mode' = "none"
    /\ resize_edges' = {}
    /\ drag_start' = None
    /\ UNCHANGED <<command, page, winfo, geom, units, cursor, timers, output, button1>>

on_mode_change(mode) ==
    /\ CommitEvent
    /\ mode_var' = mode
    /\ ApplyConstraints(mode)
    /\ UNCHANGED <<command, page, winfo, geom, gesture, units, cursor, timers, output,
                   button1>>

on_entry_commit ==
    /\ CommitEvent
    /\ ApplyConstraints(mode_var)
    /\ UNCHANGED <<command, page, winfo, geom, gesture, mode_var, units, cursor,
                   timers, output, button1>>

\* the user types into the ratio entry / the W entry / the H entry
edit_ratio(text) ==
    /\ EditEvent
    /\ ratio_var' = text
    /\ UNCHANGED <<command, page, winfo, geom, rect, gesture, constraint, mode_var,
                   dim_w_var, dim_h_var, units, cursor, timers, output,
                   button1>>

edit_dim_w(text) ==
    /\ EditEvent
    /\ dim_w_var' = text
    /\ UNCHANGED <<command, page, winfo, geom, rect, gesture, constraint, mode_var,
                   ratio_var, dim_h_var, units, cursor, timers, output,
                   button1>>

edit_dim_h(text) ==
    /\ EditEvent
    /\ dim_h_var' = text
    /\ UNCHANGED <<command, page, winfo, geom, rect, gesture, constraint, mode_var,
                   ratio_var, dim_w_var, units, cursor, timers, output,
                   button1>>

on_unit_change(wunit, hunit) ==
    /\ CommitEvent
    /\ dim_w_unit' = wunit
    /\ dim_h_unit' = hunit
    /\ LET f == update_fields_from_rect(rect, scale, wunit, hunit)
       IN  /\ Representable(<<f[1].a, f[2].a, f[3].a>>)
           /\ ratio_var' = f[1]
           /\ dim_w_var' = f[2]
           /\ dim_h_var' = f[3]
    /\ UNCHANGED <<command, page, winfo, geom, rect, gesture, constraint, mode_var,
                   cursor, timers, output, button1>>

\* the notification schedules a commit and leaves the pending one in place
on_window_resize_without_cancel(vp) ==
    /\ ResizeEvent
    /\ winfo' = vp
    /\ resize_job' = next_after
    /\ after_queue' = after_queue \cup {next_after}
    /\ next_after' = next_after + 1
    /\ UNCHANGED <<command, page, geom, rect, gesture, constraint, mode_var, fields,
                   units, cursor, output, button1>>

\* <Configure>: the canvas has the size vp; the commit is (re)scheduled
on_window_resize(vp) ==
    /\ ResizeEvent
    /\ winfo' = vp
    /\ resize_job' = next_after
    /\ after_queue' = (after_queue \ {resize_job}) \cup {next_after}
    /\ next_after' = next_after + 1
    /\ UNCHANGED <<command, page, geom, rect, gesture, constraint, mode_var, fields,
                   units, cursor, output, button1>>

\* the commit that re-renders the page and only clamps the old rectangle
on_resize_commit_without_reprojection ==
    /\ ~closed
    /\ resize_job # 0
    /\ resize_job \in after_queue
    /\ after_queue' = after_queue \ {resize_job}
    /\ resize_job' = 0
    /\ LET g == render_page(winfo, page)
       IN  /\ SetGeom(g)
           /\ update_rect(clamp_rect(rect, g, TRUE), g.scale)
    /\ UNCHANGED <<command, page, winfo, gesture, constraint, mode_var, units, cursor,
                   next_after, output, button1, counts>>

\* the scheduled callback fires
on_resize_commit ==
    /\ ~closed
    /\ resize_job # 0
    /\ resize_job \in after_queue
    /\ after_queue' = after_queue \ {resize_job}
    /\ resize_job' = 0
    /\ LET previous_scale == IF scale[1] = 0 THEN R(1) ELSE scale
           g == render_page(winfo, page)
           x1p == RDiv(RSub(rect[1], image_x0), previous_scale)
           x2p == RDiv(RSub(rect[3], image_x0), previous_scale)
           y1p == RDiv(RSub(rect[2], image_y0), previous_scale)
           y2p == RDiv(RSub(rect[4], image_y0), previous_scale)
           r == <<RAdd(g.image_x0, RMul(x1p, g.scale)),
                  RAdd(g.image_y0, RMul(y1p, g.scale)),
                  RAdd(g.image_x0, RMul(x2p, g.scale)),
                  RAdd(g.image_y0, RMul(y2p, g.scale))>>
       IN  /\ SetGeom(g)
           /\ update_rect(clamp_rect(r, g, TRUE), g.scale)
    /\ UNCHANGED <<command, page, winfo, gesture, constraint, mode_var, units, cursor,
                   next_after, output, button1, counts>>

\* the conversion without the inversion of the Y axis
to_document_without_flip(r, g, page_height) ==
    <<RDiv(RSub(r[1], g.image_x0), g.scale),
      RDiv(RSub(r[2], g.image_y0), g.scale),
      RDiv(RSub(r[3], g.image_x0), g.scale),
      RDiv(RSub(r[4], g.image_y0), g.scale)>>

\* the conversion measured from the canvas origin, not the image origin
to_document_from_canvas_origin(r, g, page_height) ==
    <<RDiv(r[1], g.scale),
      RSub(page_height, RDiv(r[4], g.scale)),
      RDiv(r[3], g.scale),
      RSub(page_height, RDiv(r[2], g.scale))>>

\* the canvas-to-document conversion of save_and_close
to_document(r, g, page_height) ==
    <<RDiv(RSub(r[1], g.image_x0), g.scale),
      RSub(page_height, RDiv(RSub(r[4], g.image_y0), g.scale)),
      RDiv(RSub(r[3], g.image_x0), g.scale),
      RSub(page_height, RDiv(RSub(r[2], g.image_y0), g.scale))>>

save_and_close ==
    /\ ~closed
    /\ steps_left > 0
    /\ steps_left' = steps_left - 1
    /\ Representable(to_document(rect, Geom, R(page[2])))
    /\ crop_data' = to_document(rect, Geom, R(page[2]))
    /\ writes' = writes + 1
    /\ closed' = TRUE
    /\ after_queue' = {}
    /\ UNCHANGED <<command, page, winfo, geom, rect, gesture, constraint, mode_var,
                   fields, units, cursor, resize_job, next_after, button1,
                   pointer_left, edits_left, commits_left, resizes_left>>

Next ==
    \/ \E p \in PressPoints : on_button_press(p[1], p[2])
    \/ \E p \in DragPoints : on_mouse_drag(p[1], p[2])
    \/ \E p \in HoverPoints : on_button_release(p[1], p[2])
    \/ \E p \in HoverPoints : on_mouse_move(p[1], p[2])
    \/ on_mouse_leave
    \/ \E m \in Modes : on_mode_change(m)
    \/ on_entry_commit
    \/ \E t \in RatioTexts : edit_ratio(t)
    \/ \E t \in DimTexts : edit_dim_w(t)
    \/ \E t \in DimTexts : edit_dim_h(t)
    \/ \E u \in Units : on_unit_change(u, dim_h_unit)
    \/ \E u \in Units : on_unit_change(dim_w_unit, u)
    \/ \E vp \in Viewports : on_window_resize(vp)
    \/ on_resize_commit
    \/ save_and_close

Spec == Init /\ [][Next]_vars

----------------------------------------------------------------------------
(* The same handlers started in the middle of a Freeform session: the      *)
(* rectangle is one the user has dragged into place edge by edge (integer  *)
(* edges, at least min_size apart, inside the image), the pointer is up    *)
(* and the entries show what update_fields_from_rect wrote for it.         *)

FnViewports == {<<68, 66>>, <<612, 792>>, <<306, 396>>}
FnRects == {<<10, 4, 50, 60>>, <<20, 20, 40, 50>>, <<12, 10, 22, 20>>,
            <<100, 100, 300, 400>>, <<50, 50, 250, 250>>}

Inside(r, g) ==
    /\ RLe(left_bound(g), r[1]) /\ RLe(r[3], right_bound(g))
    /\ RLe(top_bound(g), r[2]) /\ RLe(r[4], bottom_bound(g))

InitFn ==
    \E pg \in Pages, vp \in FnViewports, ir \in FnRects :
        LET g == render_page(vp, pg)
            r == <<R(ir[1]), R(ir[2]), R(ir[3]), R(ir[4])>>
            f == update_fields_from_rect(r, g.scale, "in", "in")
        IN  /\ Inside(r, g)
            /\ interactive_mode
            /\ page = pg
            /\ winfo = vp
            /\ canvas_width = g.canvas_width
            /\ canvas_height = g.canvas_height
            /\ scale = g.scale
            /\ image_x0 = g.image_x0
            /\ image_y0 = g.image_y0
            /\ image_width = g.image_width
            /\ image_height = g.image_height
            /\ rect = r
            /\ drag_mode = "none"
            /\ resize_edges = {}
            /\ drag_start = None
            /\ aspect_ratio = None
            /\ forced_dimensions = None
            /\ mode_var = "Freeform"
            /\ ratio_var = f[1]
            /\ dim_w_var = f[2]
            /\ dim_h_var = f[3]
            /\ dim_w_unit = "in"
            /\ dim_h_unit = "in"
            /\ cursor = "arrow"
            /\ resize_job = 0
            /\ after_queue = {}
            /\ next_after = 1
            /\ crop_data = None
            /\ writes = 0
            /\ closed = FALSE
            /\ button1 = FALSE
            /\ pointer_left = FnMaxPointer
            /\ edits_left = FnMaxEdits
            /\ commits_left = FnMaxCommits
            /\ resizes_left = FnMaxResizes
            /\ steps_left = FnMaxSteps

SpecFn == InitFn /\ [][Next]_vars

----------------------------------------------------------------------------
(* Properties of the rectangle.                                            *)

Width(r) == RSub(r[3], r[1])
Height(r) == RSub(r[4], r[2])
CenterX(r) == RHalf(RAdd(r[1], r[3]))
CenterY(r) == RHalf(RAdd(r[2], r[4]))

NotInverted(r) == RLe(r[1], r[3]) /\ RLe(r[2], r[4])

\* C1: after any sequence of operations the current rectangle satisfies
\* x1 <= x2 and y1 <= y2; it is never inverted.
C1_RectNeverInverted == NotInverted(rect)

\* C2: after any sequence of operations the current rectangle lies within
\* the rendered page image [image_x0, image_x0 + image_width] x
\* [image_y0, image_y0 + image_height].  Stated for rectangles that are not
\* inverted, so that a violation shows a properly ordered rectangle that
\* leaves the image.
C2_RectWithinImage == NotInverted(rect) => Inside(rect, Geom)

----------------------------------------------------------------------------
(* The gesture state machine.                                              *)

Edges == {"left", "right", "top", "bottom"}

\* the coordinate of the rectangle an edge lies on, and the pointer
\* coordinate measured against it
EdgeAt(r, e) ==
    CASE e = "left" -> r[1] [] e = "top" -> r[2]
      [] e = "right" -> r[3] [] e = "bottom" -> r[4]
PointerAt(x, y, e) == IF e \in {"left", "right"} THEN R(x) ELSE R(y)

\* the edges within six canvas units of the pointer
EdgesWithinSix(r, x, y) ==
    {e \in Edges : RLe(RAbs(RSub(PointerAt(x, y, e), EdgeAt(r, e))), R(6))}

PointerOutside(r, x, y) ==
    \/ RLt(R(x), r[1]) \/ RGt(R(x), r[3])
    \/ RLt(R(y), r[2]) \/ RGt(R(y), r[4])

PressOutcome(x, y) ==
    /\ rect' = rect
    /\ IF PointerOutside(rect, x, y)
       THEN drag_mode' = "none" /\ resize_edges' = {} /\ drag_start' = None
       ELSE /\ drag_start' = <<x, y>>
            /\ IF EdgesWithinSix(rect, x, y) # {}
               THEN /\ drag_mode' = "resize"
                    /\ resize_edges' = EdgesWithinSix(rect, x, y)
               ELSE drag_mode' = "move" /\ resize_edges' = {}

\* C3: a press in Idle outside the rectangle leaves the gesture Idle with
\* no anchor, even within six units of an edge from the outside; a press
\* inside within six units of one or more edges starts Resizing with
\* exactly those edges; any other press inside starts Moving; in both
\* cases the press position becomes the anchor; the rectangle is unchanged.
C3_PressTransitions ==
    [][\A p \in PressPoints :
          (drag_mode = "none" /\ on_button_press(p[1], p[2]))
              => PressOutcome(p[1], p[2])]_vars

\* a press on the bottom-right corner has started Resizing with both edges
C3_Witness ==
    /\ pointer_left = MaxPointer - 1
    /\ drag_mode = "resize"
    /\ resize_edges = {"right", "bottom"}
    /\ drag_start # None
    /\ ~PointerOutside(rect, drag_start[1], drag_start[2])

\* C4: a release from any gesture state leaves the gesture Idle with the
\* anchor and the edge set cleared, and leaves the rectangle, the mode and
\* the active constraint unchanged.
C4_ReleaseToIdle ==
    [][\A p \in HoverPoints :
          on_button_release(p[1], p[2])
              => /\ drag_mode' = "none"
                 /\ resize_edges' = {}
                 /\ drag_start' = None
                 /\ rect' = rect
                 /\ mode_var' = mode_var
                 /\ constraint' = constraint]_vars

\* press, drag and release were delivered: the button is up again, the
\* gesture is Idle, and the rectangle is the one the drag left
C4_Witness ==
    /\ pointer_left = MaxPointer - 3
    /\ ~button1
    /\ drag_mode = "none" /\ resize_edges = {} /\ drag_start = None
    /\ edits_left = MaxEdits /\ commits_left = MaxCommits
    /\ resizes_left = MaxResizes
    /\ rect # create_default_rect(Geom)

\* C5: drag mode and edge set change only on press and release: hover,
\* leave, drag, mode change, entry commit, unit change, window resize and
\* resize commit leave them alone, and hover leaves the rectangle alone.
C5_GestureChangesOnlyOnPressRelease ==
    [][/\ \/ \E p \in PressPoints : on_button_press(p[1], p[2])
          \/ \E p \in HoverPoints : on_button_release(p[1], p[2])
          \/ UNCHANGED <<drag_mode, resize_edges>>
       /\ \A p \in HoverPoints : on_mouse_move(p[1], p[2]) => rect' = rect]_vars

\* one pointer event, the press that started Resizing, and since then a
\* commit or a resize commit changed the rectangle under the gesture: the
\* stored edges are no longer the ones the anchor is near
C5_Witness ==
    /\ pointer_left = MaxPointer - 1
    /\ drag_mode = "resize"
    /\ drag_start # None
    /\ EdgesWithinSix(rect, drag_start[1], drag_start[2]) # resize_edges

----------------------------------------------------------------------------
(* Moving.                                                                 *)

\* the size the claim allows on one axis after a Moving drag
SizeAfterMove(size, bound) ==
    IF RGt(size, bound) THEN RMin(size, bound) ELSE size

\* C6: a drag in state Moving yields a rectangle of the same width and
\* height as before, unless the rectangle is larger than the image on an
\* axis, where the new size on that axis is min(original size, image size).
C6_MoveKeepsSize ==
    [][\A p \in DragPoints :
          (drag_mode = "move" /\ on_mouse_drag(p[1], p[2]))
              => /\ Width(rect') = SizeAfterMove(Width(rect), image_width)
                 /\ Height(rect') = SizeAfterMove(Height(rect), image_height)]_vars

----------------------------------------------------------------------------
(* Constraint projection on a mode change or an entry commit.              *)

\* the step is a mode change or an entry commit
Commit == (\E m \in Modes : on_mode_change(m)) \/ on_entry_commit

\* the rectangle of Scenario B and its projection under the ratio 2
ScenarioB == <<R(100), R(100), R(300), R(400)>>
ScenarioBResult == <<R(100), R(200), R(300), R(300)>>

\* C7: AspectRatio(r), r > 0, applied to a rectangle of positive width and
\* height inside the image keeps the center and leaves width / height = r:
\* if width / height > r the width becomes height * r and the height stays,
\* otherwise the height becomes width / r and the width stays;
\* (100,100)-(300,400) with r = 2 becomes (100,200)-(300,300).
C7_AspectRatioProjection ==
    [][(/\ Commit
        /\ aspect_ratio' # None
        /\ RGt(Width(rect), R(0)) /\ RGt(Height(rect), R(0))
        /\ Inside(rect, Geom))
       => LET r == aspect_ratio'
          IN  /\ RGt(r, R(0))
              /\ CenterX(rect') = CenterX(rect)
              /\ CenterY(rect') = CenterY(rect)
              /\ RDiv(Width(rect'), Height(rect')) = r
              /\ IF RGt(RDiv(Width(rect), Height(rect)), r)
                 THEN /\ Width(rect') = RMul(Height(rect), r)
                      /\ Height(rect') = Height(rect)
                 ELSE /\ Height(rect') = RDiv(Width(rect), r)
                      /\ Width(rect') = Width(rect)
              /\ (rect = ScenarioB /\ r = R(2)) => rect' = ScenarioBResult]_vars

\* Scenario B has been played: ratio 2 committed on (100,100)-(300,400)
C7_Witness ==
    /\ mode_var = "Force Aspect Ratio"
    /\ aspect_ratio = R(2)
    /\ scale = R(1)
    /\ rect = ScenarioBResult

\* the ratios the idempotence is checked for, besides the active one
LockRatios == {R(2), Frac(1, 3), Frac(3, 2), R(1)}

\* C8: for every rectangle and every ratio r > 0, applying AspectRatio(r)
\* to the result of AspectRatio(r), with the same page geometry, yields
\* that result again.
C8_AspectLockIdempotent ==
    \A r \in LockRatios \cup (IF aspect_ratio = None THEN {} ELSE {aspect_ratio}) :
        LET once == apply_aspect_ratio_to_rect(rect, r, Geom)
        IN  Representable(once)
                => apply_aspect_ratio_to_rect(once, r, Geom) = once

\* the ratio 1:3 has been committed and has changed the rectangle, which
\* now has that ratio
C8_Witness ==
    /\ mode_var = "Force Aspect Ratio"
    /\ aspect_ratio = Frac(1, 3)
    /\ commits_left = FnMaxCommits - 1
    /\ RDiv(Width(rect), Height(rect)) = aspect_ratio
    /\ ratio_var.a # aspect_ratio

\* C9: FixedDimensions(w, h) with positive w and h makes the rectangle
\* min(w * scale, canvas width) wide and min(h * scale, canvas height) high
\* around the previous center and then clamps it keeping that size: x1 is
\* min(max(x1, left), right - width), y1 likewise.
C9_FixedDimensionsProjection ==
    [][(/\ Commit
        /\ forced_dimensions' # None
        /\ RGt(forced_dimensions'[1], R(0))
        /\ RGt(forced_dimensions'[2], R(0)))
       => LET w == RMin(RMul(forced_dimensions'[1], scale), R(canvas_width))
              h == RMin(RMul(forced_dimensions'[2], scale), R(canvas_height))
              x1 == RSub(CenterX(rect), RHalf(w))
              y1 == RSub(CenterY(rect), RHalf(h))
          IN  /\ Width(rect') = w
              /\ Height(rect') = h
              /\ rect'[1] = RMin(RMax(x1, image_x0),
                                 RSub(RAdd(image_x0, image_width), w))
              /\ rect'[2] = RMin(RMax(y1, image_y0),
                                 RSub(RAdd(image_y0, image_height), h))]_vars

\* a forced width beyond the canvas has been committed and capped
C9_Witness ==
    /\ mode_var = "Force Dimensions"
    /\ forced_dimensions # None
    /\ RGt(forced_dimensions[1], R(0)) /\ RGt(forced_dimensions[2], R(0))
    /\ RGt(RMul(forced_dimensions[1], scale), R(canvas_width))
    /\ Width(rect) = R(canvas_width)

InvalidRatio(text) ==
    \/ text.kind \in {"empty", "junk"}
    \/ text.kind = "num" /\ RLe(text.a, R(0))
    \/ text.kind = "pair" /\ (RLe(text.a, R(0)) \/ RLe(text.b, R(0)))

InvalidLength(text, unit) ==
    \/ text.kind # "num"
    \/ RLe(text.a, R(0))
    \/ unit \notin {"in", "cm", "pt", "px"}

InvalidParameters(mode) ==
    \/ mode = "Force Aspect Ratio" /\ InvalidRatio(ratio_var)
    \/ /\ mode = "Force Dimensions"
       /\ \/ InvalidLength(dim_w_var, dim_w_unit)
          \/ InvalidLength(dim_h_var, dim_h_unit)

\* C10: a mode change or an entry commit with invalid parameters (ratio
\* unparseable, zero or negative; width or height unparseable, zero or
\* negative; unknown unit) applies no constraint: the rectangle is
\* unchanged and neither a ratio nor fixed dimensions are active.
C10_InvalidParametersRejected ==
    [][(Commit /\ InvalidParameters(mode_var'))
       => /\ rect' = rect
          /\ aspect_ratio' = None
          /\ forced_dimensions' = None]_vars

----------------------------------------------------------------------------
(* One constraint at a time.                                               *)

AtMostOneConstraint == aspect_ratio = None \/ forced_dimensions = None

\* C11: the stored aspect ratio and the stored fixed dimensions are never
\* both set, and a commit that selects Freeform clears both and leaves the
\* rectangle unchanged.
C11_AtMostOneConstraint ==
    /\ AtMostOneConstraint
    /\ [][/\ AtMostOneConstraint'
          /\ (Commit /\ mode_var' = "Freeform")
                 => /\ aspect_ratio' = None
                    /\ forced_dimensions' = None
                    /\ rect' = rect]_vars

\* two commits and nothing else: one applied a constraint that changed the
\* rectangle, the later one selected Freeform and cleared it
C11_Witness ==
    /\ mode_var = "Freeform"
    /\ aspect_ratio = None /\ forced_dimensions = None
    /\ commits_left = MaxCommits - 2
    /\ pointer_left = MaxPointer /\ resizes_left = MaxResizes
    /\ rect # create_default_rect(Geom)

----------------------------------------------------------------------------
(* The clamper.                                                            *)

\* the rectangles the clamper is tried on in every geometry reached: the
\* current rectangle and the rectangles spanned by these intervals, which
\* lie inside, across, around and beyond the images of the model
ClampSpans == {<<-5, 10>>, <<10, 30>>, <<30, 70>>, <<-5, 70>>, <<0, 700>>,
               <<700, 800>>, <<20, 20>>}
ClampInputs ==
    {rect} \cup {<<R(a[1]), R(b[1]), R(a[2]), R(b[2])>> : a, b \in ClampSpans}

\* what keepSize=true promises on one axis: lo, hi the clamped edges
KeptWithin(lo, hi, size, boundMin, boundMax) ==
    IF RLe(size, RSub(boundMax, boundMin))
    THEN RLe(boundMin, lo) /\ RLe(hi, boundMax)
    ELSE ~(RLt(lo, boundMin) /\ RGt(hi, boundMax))

\* C12: clamp with keepSize=true returns, for any ordered rectangle, a
\* rectangle of identical width and height; on an axis where it fits the
\* result lies within the bounds, and on an axis where it is larger than
\* the bounds at most one of its two edges lies outside.
C12_ClampKeepSize ==
    \A r \in ClampInputs :
        NotInverted(r) =>
            LET c == clamp_rect(r, Geom, TRUE)
            IN  /\ Representable(c)
                /\ Width(c) = Width(r)
                /\ Height(c) = Height(r)
                /\ KeptWithin(c[1], c[3], Width(r), left_bound(Geom),
                              right_bound(Geom))
                /\ KeptWithin(c[2], c[4], Height(r), top_bound(Geom),
                              bottom_bound(Geom))

\* a rectangle wider than the image has been clamped keeping its size: its
\* right edge is pinned to the bound, its left edge is outside
C12_Witness ==
    /\ NotInverted(rect)
    /\ forced_dimensions # None
    /\ RGt(Width(rect), image_width)
    /\ rect[3] = right_bound(Geom)
    /\ RLt(rect[1], left_bound(Geom))

Clip(v, boundMin, boundMax) ==
    IF RLt(v, boundMin) THEN boundMin
    ELSE IF RGt(v, boundMax) THEN boundMax ELSE v

\* C13: clamp with keepSize=false clips each of the four coordinates to
\* the bounds of its axis; for an ordered input the result is ordered, lies
\* within the bounds, and equals the input when that lies within them.
C13_ClampClip ==
    \A r \in ClampInputs :
        NotInverted(r) =>
            LET c == clamp_rect(r, Geom, FALSE)
            IN  /\ c[1] = Clip(r[1], left_bound(Geom), right_bound(Geom))
                /\ c[3] = Clip(r[3], left_bound(Geom), right_bound(Geom))
                /\ c[2] = Clip(r[2], top_bound(Geom), bottom_bound(Geom))
                /\ c[4] = Clip(r[4], top_bound(Geom), bottom_bound(Geom))
                /\ NotInverted(c)
                /\ Inside(c, Geom)
                /\ Inside(r, Geom) => c = r

\* a Freeform drag of the left edge beyond the image: the edge was clipped
\* to the left bound
C13_Witness ==
    /\ mode_var = "Freeform"
    /\ aspect_ratio = None /\ forced_dimensions = None
    /\ drag_mode = "resize" /\ resize_edges = {"left"}
    /\ drag_start # None
    /\ RLt(R(drag_start[1]), image_x0)
    /\ rect[1] = image_x0

----------------------------------------------------------------------------
(* Document space.  crop_data is <<bottom_left.x, bottom_left.y,           *)
(* top_right.x, top_right.y>>.                                             *)

page_height == R(page[2])

\* the rectangle of Scenario D and its document coordinates
ScenarioD == <<R(50), R(50), R(250), R(250)>>
ScenarioDResult == <<R(100), R(292), R(500), R(692)>>

to_canvas(d, g, ph) ==
    <<RAdd(g.image_x0, RMul(d[1], g.scale)),
      RAdd(g.image_y0, RMul(RSub(ph, d[4]), g.scale)),
      RAdd(g.image_x0, RMul(d[3], g.scale)),
      RAdd(g.image_y0, RMul(RSub(ph, d[2]), g.scale))>>

\* C15: for any geometry with scale > 0 and any rectangle inside the image,
\* converting it to document space and back with the same geometry returns
\* it; and a resize commit that finds the geometry unchanged, which takes
\* the rectangle to page coordinates and back, leaves it as it was.
C15_RoundTrip ==
    /\ []((RGt(scale, R(0)) /\ Inside(rect, Geom))
             => LET d == to_document(rect, Geom, page_height)
                IN  Representable(d) => to_canvas(d, Geom, page_height) = rect)
    /\ [][(on_resize_commit /\ Geom' = Geom /\ Inside(rect, Geom))
              => rect' = rect]_vars

\* the window was resized to the size it had and the commit ran: the
\* rectangle, inside a letterboxed image, is the one the session began with
C15_Witness ==
    /\ winfo = <<68, 66>> /\ RGt(image_x0, R(0))
    /\ next_after = 2 /\ resize_job = 0
    /\ pointer_left = FnMaxPointer /\ commits_left = FnMaxCommits
    /\ rect = <<R(10), R(4), R(50), R(60)>>

----------------------------------------------------------------------------
(* Viewport resize.                                                        *)

\* C16: a resize commit re-projects a rectangle that lies inside the image
\* so that its document coordinates, as save_and_close would write them,
\* are the same before and after, and the rectangle is ordered and inside
\* the new image bounds afterwards; hence the same holds after any
\* sequence of resize commits.
C16_ResizeReprojection ==
    [][(on_resize_commit /\ NotInverted(rect) /\ Inside(rect, Geom))
          => /\ to_document(rect', Geom', page_height)
                    = to_document(rect, Geom, page_height)
             /\ NotInverted(rect')
             /\ Inside(rect', Geom')]_vars

\* the window went from one of the larger canvases to 34x44 and the commit
\* ran: the rectangle is the re-projection of the one the session began with
C16_Witness ==
    /\ winfo = <<34, 44>> /\ canvas_width = 34 /\ scale = Frac(1, 18)
    /\ resize_job = 0 /\ next_after = 2
    /\ pointer_left = FnMaxPointer /\ commits_left = FnMaxCommits
    /\ Inside(rect, Geom)
    /\ RLt(Width(rect), R(min_size))

----------------------------------------------------------------------------
(* The rectangle a session starts with, over pages smaller and larger than *)
(* the 4in x 6in default and over wide and tall canvases.                  *)

PgMaxPointer == 2
PgMaxEdits == 1
PgMaxCommits == 1
PgMaxResizes == 1
PgMaxSteps == 2

PgPages == {<<612, 792>>, <<200, 200>>, <<144, 500>>, <<288, 432>>,
            <<500, 144>>}
PgViewports == {<<68, 66>>, <<34, 44>>, <<100, 100>>, <<0, 0>>}

\* __init__ and init_gui up to mainloop, for each of PgPages in each of
\* PgViewports
InitPg ==
    \E pg \in PgPages, vp \in PgViewports :
        LET g == render_page(vp, pg)
            r == create_default_rect(g)
            f == update_fields_from_rect(r, g.scale, "in", "in")
        IN  /\ interactive_mode
            /\ page = pg
            /\ winfo = vp
            /\ canvas_width = g.canvas_width
            /\ canvas_height = g.canvas_height
            /\ scale = g.scale
            /\ image_x0 = g.image_x0
            /\ image_y0 = g.image_y0
            /\ image_width = g.image_width
            /\ image_height = g.image_height
            /\ rect = r
            /\ drag_mode = "none"
            /\ resize_edges = {}
            /\ drag_start = None
            /\ aspect_ratio = None
            /\ forced_dimensions = None
            /\ mode_var = "Freeform"
            /\ ratio_var = f[1]
            /\ dim_w_var = f[2]
            /\ dim_h_var = f[3]
            /\ dim_w_unit = "in"
            /\ dim_h_unit = "in"
            /\ cursor = "cross"
            /\ resize_job = 0
            /\ after_queue = {}
            /\ next_after = 1
            /\ crop_data = None
            /\ writes = 0
            /\ closed = FALSE
            /\ button1 = FALSE
            /\ pointer_left = PgMaxPointer
            /\ edits_left = PgMaxEdits
            /\ commits_left = PgMaxCommits
            /\ resizes_left = PgMaxResizes
            /\ steps_left = PgMaxSteps

SpecPg == InitPg /\ [][Next]_vars

\* no event has been handled since init_gui built the window
Untouched == steps_left = PgMaxSteps

\* the factor by which the 288 x 432 point default is shrunk to fit
FitFactor ==
    RMin(RMin(RDiv(image_width, RMul(R(288), scale)),
              RDiv(image_height, RMul(R(432), scale))), R(1))

\* C17: the image area is centred in the viewport at scale
\* min(viewportWidth/pageWidth, viewportHeight/pageHeight); the initial
\* rectangle is centred on it, measures 288*scale by 432*scale times the
\* fit factor min(imageWidth/(288*scale), imageHeight/(432*scale), 1),
\* keeps the 2:3 proportion and lies inside the image area.
C17_DefaultRectangle ==
    Untouched =>
        /\ scale = RMin(RDiv(R(canvas_width), R(page[1])),
                        RDiv(R(canvas_height), R(page[2])))
        /\ image_width = RMul(R(page[1]), scale)
        /\ image_height = RMul(R(page[2]), scale)
        /\ RAdd(image_x0, RHalf(image_width)) = RHalf(R(canvas_width))
        /\ RAdd(image_y0, RHalf(image_height)) = RHalf(R(canvas_height))
        /\ CenterX(rect) = RAdd(image_x0, RHalf(image_width))
        /\ CenterY(rect) = RAdd(image_y0, RHalf(image_height))
        /\ Width(rect) = RMul(RMul(R(288), scale), FitFactor)
        /\ Height(rect) = RMul(RMul(R(432), scale), FitFactor)
        /\ RMul(R(3), Width(rect)) = RMul(R(2), Height(rect))
        /\ Inside(rect, Geom)

\* a 200 x 200 point page in the 68 x 66 canvas: the default is shrunk by
\* 25/54 to 44 x 66, the full height of the image
C17_Witness ==
    /\ Untouched
    /\ page = <<200, 200>> /\ winfo = <<68, 66>>
    /\ FitFactor = Frac(25, 54)
    /\ rect = <<R(12), R(0), R(56), R(66)>>

----------------------------------------------------------------------------
(* Resize drags.                                                           *)

\* a drag event at (x, y) that resize_rect handles
ResizeDrag(x, y) ==
    /\ drag_mode = "resize"
    /\ drag_start # None
    /\ on_mouse_drag(x, y)

AtLeastMinSize(r) ==
    /\ RGe(Width(r), R(min_size))
    /\ RGe(Height(r), R(min_size))

\* C18: with no forced dimensions active (Freeform or aspect ratio), a
\* resize drag of a rectangle that lies inside the image bounds and is at
\* least min_size wide and high leaves its opposite edges at least
\* min_size apart on both axes, for every pointer position and edge set.
C18_ResizeKeepsMinSize ==
    [][\A p \in DragPoints :
          (/\ ResizeDrag(p[1], p[2])
           /\ forced_dimensions = None
           /\ Inside(rect, Geom)
           /\ AtLeastMinSize(rect))
          => AtLeastMinSize(rect')]_vars

\* what does hold: the same drags in Freeform mode with one dragged edge
\* per axis
FreeformOneEdgePerAxisKeepsMinSize ==
    [][\A p \in DragPoints :
          (/\ ResizeDrag(p[1], p[2])
           /\ forced_dimensions = None
           /\ ~Truthy(aspect_ratio)
           /\ ~({"left", "right"} \subseteq resize_edges)
           /\ ~({"top", "bottom"} \subseteq resize_edges)
           /\ Inside(rect, Geom)
           /\ AtLeastMinSize(rect))
          => AtLeastMinSize(rect')]_vars

\* the edge set of a corner: a horizontal and a vertical edge
CornerDrag ==
    /\ "left" \in resize_edges \/ "right" \in resize_edges
    /\ "top" \in resize_edges \/ "bottom" \in resize_edges

\* C19: while an aspect ratio r is active, the rectangle a corner resize
\* drag produces has width / height = r, also when the ratio-corrected
\* rectangle would extend past the image bounds (it is clamped with
\* keep_size = True, never shrunk on one axis).
C19_CornerResizeKeepsRatio ==
    [][\A p \in DragPoints :
          (/\ ResizeDrag(p[1], p[2])
           /\ Truthy(aspect_ratio)
           /\ forced_dimensions = None
           /\ CornerDrag)
          => /\ RGt(Height(rect'), R(0))
             /\ RDiv(Width(rect'), Height(rect')) = aspect_ratio]_vars

\* what does hold: the ratio is kept whenever the ratio-corrected
\* rectangle lies inside the image bounds
CornerResizeInsideKeepsRatio ==
    [][\A p \in DragPoints :
          (/\ ResizeDrag(p[1], p[2])
           /\ Truthy(aspect_ratio)
           /\ forced_dimensions = None
           /\ CornerDrag
           /\ Inside(resize_aspect(resize_edges_free(rect, resize_edges,
                                                     p[1], p[2]),
                                   resize_edges, p[1], p[2], aspect_ratio),
                     Geom))
          => /\ RGt(Height(rect'), R(0))
             /\ RDiv(Width(rect'), Height(rect')) = aspect_ratio]_vars

----------------------------------------------------------------------------
(* The same handlers started in a session in which the user has typed a    *)
(* width into W, left the 6 that H shows for the default rectangle, and    *)
(* selected 'Force Dimensions': on_mode_change has run apply_constraints.  *)

FdMaxPointer == 2
FdMaxEdits == 1
FdMaxCommits == 1
FdMaxResizes == 1
FdMaxSteps == 3

FdViewports == {<<68, 66>>, <<612, 792>>}
FdWidths == {NumText(R(10))}

InitFd ==
    \E pg \in Pages, vp \in FdViewports, wt \in FdWidths :
        LET g == render_page(vp, pg)
            fd == <<unit_to_points(parse_float(wt), "in"),
                    unit_to_points(parse_float(NumText(R(6))), "in")>>
            r == apply_forced_dimensions_to_rect(create_default_rect(g),
                                                 fd, g)
            f == update_fields_from_rect(r, g.scale, "in", "in")
        IN  /\ update_fields_from_rect(create_default_rect(g), g.scale,
                                       "in", "in")[3] = NumText(R(6))
            /\ interactive_mode
            /\ page = pg
            /\ winfo = vp
            /\ canvas_width = g.canvas_width
            /\ canvas_height = g.canvas_height
            /\ scale = g.scale
            /\ image_x0 = g.image_x0
            /\ image_y0 = g.image_y0
            /\ image_width = g.image_width
            /\ image_height = g.image_height
            /\ rect = r
            /\ drag_mode = "none"
            /\ resize_edges = {}
            /\ drag_start = None
            /\ aspect_ratio = None
            /\ forced_dimensions = fd
            /\ mode_var = "Force Dimensions"
            /\ ratio_var = f[1]
            /\ dim_w_var = f[2]
            /\ dim_h_var = f[3]
            /\ dim_w_unit = "in"
            /\ dim_h_unit = "in"
            /\ cursor = "cross"
            /\ resize_job = 0
            /\ after_queue = {}
            /\ next_after = 1
            /\ crop_data = None
            /\ writes = 0
            /\ closed = FALSE
            /\ button1 = FALSE
            /\ pointer_left = FdMaxPointer
            /\ edits_left = FdMaxEdits
            /\ commits_left = FdMaxCommits
            /\ resizes_left = FdMaxResizes
            /\ steps_left = FdMaxSteps

SpecFd == InitFd /\ [][Next]_vars

\* the horizontal placements the forced branch may choose from: the left
\* edge at the pointer, the right edge at the pointer, or the old edges
PlacedX(r, x, w) == {<<R(x), RAdd(R(x), w)>>, <<RSub(R(x), w), R(x)>>,
                     <<r[1], r[3]>>}
PlacedY(r, y, h) == {<<R(y), RAdd(R(y), h)>>, <<RSub(R(y), h), R(y)>>,
                     <<r[2], r[4]>>}

\* every edge of the set lies at the pointer with the opposite edge the
\* fixed size away; an axis with no dragged edge is left as it was
EachEdgeAtPointer(xs, ys, r, edges, x, y, sz) ==
    /\ "left" \in edges => xs = <<R(x), RAdd(R(x), sz[1])>>
    /\ "right" \in edges => xs = <<RSub(R(x), sz[1]), R(x)>>
    /\ ("left" \notin edges /\ "right" \notin edges) => xs = <<r[1], r[3]>>
    /\ "top" \in edges => ys = <<R(y), RAdd(R(y), sz[2])>>
    /\ "bottom" \in edges => ys = <<RSub(R(y), sz[2]), R(y)>>
    /\ ("top" \notin edges /\ "bottom" \notin edges) => ys = <<r[2], r[4]>>

\* the drag leaves the capped fixed size
ForcedSizeAfter(r, sz) == Width(r) = sz[1] /\ Height(r) = sz[2]

\* C20: while forced dimensions (w, h) are active, every resize drag
\* leaves the width and height equal to min(w*scale, canvas width) by
\* min(h*scale, canvas height): each dragged edge is placed at the pointer
\* coordinate on its axis, the opposite edge the fixed size from it, and
\* the result is clamped with keep_size = True.
C20_ForcedResize ==
    [][\A p \in DragPoints :
          (ResizeDrag(p[1], p[2]) /\ forced_dimensions # None)
          => LET sz == forced_size(forced_dimensions, Geom)
             IN  /\ ForcedSizeAfter(rect', sz)
                 /\ \E xs \in PlacedX(rect, p[1], sz[1]),
                       ys \in PlacedY(rect, p[2], sz[2]) :
                       /\ EachEdgeAtPointer(xs, ys, rect, resize_edges,
                                            p[1], p[2], sz)
                       /\ rect' = clamp_rect(<<xs[1], ys[1], xs[2], ys[2]>>,
                                             Geom, TRUE)]_vars

\* the size part of C20 alone
ForcedResizeLeavesFixedSize ==
    [][\A p \in DragPoints :
          (ResizeDrag(p[1], p[2]) /\ forced_dimensions # None)
          => ForcedSizeAfter(rect', forced_size(forced_dimensions, Geom))]_vars

----------------------------------------------------------------------------
(* The session as a whole.                                                 *)

\* the crop record exists exactly when the session was confirmed, and was
\* written once
EmittedOnceOnDone ==
    /\ writes \in {0, 1}
    /\ closed <=> writes = 1
    /\ closed <=> crop_data # None

\* C21: the crop record is emitted exactly once per session and only on
\* the explicit confirmation: no press, drag, release, mode change,
\* parameter commit or viewport resize writes it, and once the session is
\* confirmed no further event is processed.
C21_EmittedOnceOnDone ==
    /\ []EmittedOnceOnDone
    /\ [][/\ ~closed
          /\ (writes' # writes \/ crop_data' # crop_data)
                => (save_and_close /\ closed')]_vars

\* Done pressed after a gesture changed the rectangle and was released
C21_Witness ==
    /\ closed /\ writes = 1
    /\ crop_data = to_document(rect, Geom, page_height)
    /\ ~button1 /\ drag_mode = "none"
    /\ pointer_left = MaxPointer - 3
    /\ rect # create_default_rect(Geom)

----------------------------------------------------------------------------
(* The command line: main of src/labelcrop/lbl.py and of the older         *)
(* src/label_crop/lbl.py, one step per statement that reads or writes a    *)
(* file or ends the process.  The crop-data file crop_data.cfg is the      *)
(* variable crop_data: it exists exactly when crop_data is not None.       *)

\* int(s) for the angle arguments the command line is tried with: <<n>>
\* where it returns n, ValueError where it raises
ValueError == <<>>

int(s) ==
    CASE s = "90" -> <<90>>
      [] s = "180" -> <<180>>
      [] s = "-90" -> <<-90>>
      [] OTHER -> ValueError

AngleArgs == {"90", "180", "-90", "abc", "90.5", ""}
Argvs ==
    {<<"prog">>, <<"prog", "input.pdf">>,
     <<"prog", "input.pdf", "output.pdf">>,
     <<"prog", "input.pdf", "output.pdf", "90", "extra">>}
    \cup {<<"prog", "input.pdf", "output.pdf", a>> : a \in AngleArgs}
EntryPoints == {"labelcrop", "label_crop"}

\* a crop record a former session left in crop_data.cfg
StoredCrop == <<R(72), R(72), R(360), R(504)>>

\* no selector object exists in a run of main before it is constructed
no_selector ==
    /\ page = None /\ winfo = None
    /\ canvas_width = 0 /\ canvas_height = 0
    /\ scale = None /\ image_x0 = None /\ image_y0 = None
    /\ image_width = None /\ image_height = None
    /\ rect = None
    /\ drag_mode = "none" /\ resize_edges = {} /\ drag_start = None
    /\ aspect_ratio = None /\ forced_dimensions = None
    /\ mode_var = "Freeform"
    /\ ratio_var = EmptyText /\ dim_w_var = EmptyText /\ dim_h_var = EmptyText
    /\ dim_w_unit = "in" /\ dim_h_unit = "in"
    /\ cursor = "cross"
    /\ resize_job = 0 /\ after_queue = {} /\ next_after = 1
    /\ writes = 0 /\ closed = FALSE /\ button1 = FALSE
    /\ pointer_left = 0 /\ edits_left = 0 /\ commits_left = 0
    /\ resizes_left = 0 /\ steps_left = 0

selector == <<page, winfo, geom, rect, gesture, constraint, mode_var, fields,
              units, cursor, timers, writes, closed, button1, counts>>

InitCli ==
    \E a \in Argvs, e \in EntryPoints, c \in {None, StoredCrop} :
        /\ argv = a
        /\ entry_point = e
        /\ crop_data = c
        /\ pc = "start"
        /\ angle = None
        /\ output_pdf = "absent"
        /\ pdf_log = <<>>
        /\ exit_code = None
        /\ no_selector

\* len(sys.argv) == 2: interactive_crop_selector runs a whole session, which
\* ends with the crop record written (Done) or not (window closed)
main_interactive ==
    /\ pc = "start"
    /\ Len(argv) = 2
    /\ pdf_log' = Append(pdf_log, "read input")
    /\ \E written \in {crop_data, StoredCrop} : crop_data' = written
    /\ pc' = "exit"
    /\ exit_code' = 0
    /\ UNCHANGED <<argv, entry_point, angle, output_pdf, selector>>

\* the load without the os.path.exists test
main_load_crop_data_unchecked ==
    /\ pc = "start"
    /\ Len(argv) \in {3, 4}
    /\ pc' = "loaded"
    /\ exit_code' = exit_code
    /\ UNCHANGED <<argv, entry_point, angle, output_pdf, pdf_log, crop_data,
                   selector>>

\* len(sys.argv) in (3, 4): the crop data is looked for and loaded
main_load_crop_data ==
    /\ pc = "start"
    /\ Len(argv) \in {3, 4}
    /\ IF crop_data = None
       THEN pc' = "exit" /\ exit_code' = 1
       ELSE pc' = "loaded" /\ exit_code' = exit_code
    /\ UNCHANGED <<argv, entry_point, angle, output_pdf, pdf_log, crop_data,
                   selector>>

\* any other argument count: usage
main_usage ==
    /\ pc = "start"
    /\ Len(argv) \notin {2, 3, 4}
    /\ pc' = "exit"
    /\ exit_code' = 1
    /\ UNCHANGED <<argv, entry_point, angle, output_pdf, pdf_log, crop_data,
                   selector>>

\* angle = int(sys.argv[3]): labelcrop does it before crop_pdf, label_crop
\* after it
main_parse_angle ==
    /\ Len(argv) = 4
    /\ \/ entry_point = "labelcrop" /\ pc = "loaded"
       \/ entry_point = "label_crop" /\ pc = "cropped"
    /\ IF int(argv[4]) = ValueError
       THEN pc' = "exit" /\ exit_code' = 1 /\ angle' = angle
       ELSE pc' = "angle" /\ exit_code' = exit_code /\ angle' = int(argv[4])[1]
    /\ UNCHANGED <<argv, entry_point, output_pdf, pdf_log, crop_data,
                   selector>>

crop_pdf ==
    /\ \/ pc = "loaded" /\ (Len(argv) = 3 \/ entry_point = "label_crop")
       \/ pc = "angle" /\ entry_point = "labelcrop"
    /\ pdf_log' = pdf_log \o <<"read input", "write output">>
    /\ output_pdf' = "cropped"
    /\ pc' = "cropped"
    /\ UNCHANGED <<argv, entry_point, angle, exit_code, crop_data, selector>>

rotate_pdf ==
    /\ Len(argv) = 4
    /\ \/ pc = "cropped" /\ entry_point = "labelcrop"
       \/ pc = "angle" /\ entry_point = "label_crop"
    /\ pdf_log' = pdf_log \o <<"read output", "write output">>
    /\ output_pdf' = "rotated"
    /\ pc' = "rotated"
    /\ UNCHANGED <<argv, entry_point, angle, exit_code, crop_data, selector>>

\* main returns: the interpreter exits with status 0
main_return ==
    /\ \/ pc = "cropped" /\ Len(argv) = 3
       \/ pc = "rotated"
    /\ pc' = "exit"
    /\ exit_code' = 0
    /\ UNCHANGED <<argv, entry_point, angle, output_pdf, pdf_log, crop_data,
                   selector>>

NextCli ==
    \/ main_interactive
    \/ main_load_crop_data
    \/ main_usage
    \/ main_parse_angle
    \/ crop_pdf
    \/ rotate_pdf
    \/ main_return

SpecCli == InitCli /\ [][NextCli]_vars

Exited == pc = "exit"
CropLog == <<"read input", "write output">>
RotateLog == <<"read output", "write output">>

\* C22: main dispatches on the argument count: one argument starts the
\* interactive mode, two crop only, three crop and then rotate; with two
\* or three arguments a missing crop-data file ends the run with exit code
\* 1 before any PDF is read or written, a non-integer angle ends it with
\* exit code 1, and any other argument count ends it with exit code 1
\* (usage).
C22_CommandLineDispatch ==
    /\ (Len(argv) \in {3, 4} /\ crop_data = None)
          => (pdf_log = <<>> /\ output_pdf = "absent")
    /\ Len(argv) \notin {2, 3, 4}
          => (pdf_log = <<>> /\ output_pdf = "absent")
    /\ Exited =>
          CASE Len(argv) = 2 ->
                  /\ exit_code = 0
                  /\ pdf_log = <<"read input">> /\ output_pdf = "absent"
            [] Len(argv) \in {3, 4} /\ crop_data = None -> exit_code = 1
            [] Len(argv) = 3 /\ crop_data # None ->
                  /\ exit_code = 0
                  /\ pdf_log = CropLog /\ output_pdf = "cropped"
            [] Len(argv) = 4 /\ crop_data # None ->
                  IF int(argv[4]) = ValueError
                  THEN exit_code = 1
                  ELSE /\ exit_code = 0
                       /\ angle = int(argv[4])[1]
                       /\ pdf_log = CropLog \o RotateLog
                       /\ output_pdf = "rotated"
            [] OTHER -> exit_code = 1

\* label_crop run as `prog input.pdf output.pdf 90` with no crop_data.cfg
C22_Witness ==
    /\ Exited /\ exit_code = 1
    /\ entry_point = "label_crop"
    /\ argv = <<"prog", "input.pdf", "output.pdf", "90">>
    /\ crop_data = None
    /\ pdf_log = <<>>

\* C28: in crop-then-rotate mode, in both entry points, the angle is
\* validated before any output is produced: with a non-integer angle the
\* run ends with exit code 1 without having written the output file; with
\* a valid angle the crop is written first and the rotation is applied
\* afterwards to the cropped output.
C28_AngleValidatedFirst ==
    (Len(argv) = 4 /\ crop_data # None) =>
        IF int(argv[4]) = ValueError
        THEN /\ output_pdf = "absent"
             /\ \A i \in DOMAIN pdf_log : pdf_log[i] # "write output"
             /\ Exited => exit_code = 1
        ELSE Exited => /\ exit_code = 0
                       /\ pdf_log = CropLog \o RotateLog
                       /\ output_pdf = "rotated"

\* what does hold: the same for the entry point labelcrop alone
AngleValidatedFirstInLabelcrop ==
    entry_point = "labelcrop" => C28_AngleValidatedFirst

----------------------------------------------------------------------------
(* The gesture record.                                                     *)

OppositeEdges(edges) ==
    \/ {"left", "right"} \subseteq edges
    \/ {"top", "bottom"} \subseteq edges

\* C23: in every reachable Resizing state the edge set is a single edge or
\* two adjacent edges (one of left/right with one of top/bottom); it never
\* holds both left and right, nor both top and bottom.
C23_EdgeSetAdjacent ==
    drag_mode = "resize" =>
        /\ resize_edges # {}
        /\ ~OppositeEdges(resize_edges)

\* a drag event at (x, y) in state Moving
MoveDrag(x, y) ==
    /\ drag_mode = "move"
    /\ drag_start # None
    /\ on_mouse_drag(x, y)

\* the rectangle moved by the pointer delta since the anchor
Translated(r, x, y) ==
    LET dx == R(x - drag_start[1])
        dy == R(y - drag_start[2])
    IN  <<RAdd(r[1], dx), RAdd(r[2], dy), RAdd(r[3], dx), RAdd(r[4], dy)>>

\* where the pointer holds the rectangle: the anchor relative to its corner
Grip(r, a) == <<RSub(R(a[1]), r[1]), RSub(R(a[2]), r[2])>>

AdjacentPair(edges) == CornerDrag /\ ~OppositeEdges(edges)

\* the corner that faces the dragged one
OppositeCorner(r, edges) ==
    <<IF "left" \in edges THEN r[3] ELSE r[1],
      IF "top" \in edges THEN r[4] ELSE r[2]>>

\* C25: during a corner resize drag under an aspect ratio, applied to a
\* rectangle inside the image bounds, the corner opposite to the dragged
\* corner is fixed: its two coordinates after the drag event are those
\* before it, for every pointer position and every corner edge set a
\* press can produce.
C25_OppositeCornerFixed ==
    [][\A p \in DragPoints :
          (/\ ResizeDrag(p[1], p[2])
           /\ Truthy(aspect_ratio)
           /\ forced_dimensions = None
           /\ CornerDrag
           /\ Inside(rect, Geom))
          => OppositeCorner(rect', resize_edges)
                = OppositeCorner(rect, resize_edges)]_vars

\* what does hold: the opposite corner is fixed when the edge set is two
\* adjacent edges
AdjacentCornerKeepsOppositeCorner ==
    [][\A p \in DragPoints :
          (/\ ResizeDrag(p[1], p[2])
           /\ Truthy(aspect_ratio)
           /\ forced_dimensions = None
           /\ AdjacentPair(resize_edges)
           /\ Inside(rect, Geom))
          => OppositeCorner(rect', resize_edges)
                = OppositeCorner(rect, resize_edges)]_vars

\* an edge that follows the pointer coordinate c but stays min_size away
\* from the opposite edge opp
LowEdge(c, opp) == RMin(R(c), RSub(opp, R(min_size)))
HighEdge(c, opp) == RMax(R(c), RAdd(opp, R(min_size)))

ClipX(v) == Clip(v, left_bound(Geom), right_bound(Geom))
ClipY(v) == Clip(v, top_bound(Geom), bottom_bound(Geom))

\* where a Freeform resize drag to (x, y) leaves the four edges: an edge
\* outside the edge set where it was, an active edge at the pointer as
\* far as min_size and the image bounds allow
FreeformEdges(r, edges, x, y) ==
    LET left == IF "left" \in edges THEN LowEdge(x, r[3]) ELSE r[1]
        top == IF "top" \in edges THEN LowEdge(y, r[4]) ELSE r[2]
    IN  <<IF "left" \in edges THEN ClipX(left) ELSE r[1],
          IF "top" \in edges THEN ClipY(top) ELSE r[2],
          IF "right" \in edges THEN ClipX(HighEdge(x, left)) ELSE r[3],
          IF "bottom" \in edges THEN ClipY(HighEdge(y, top)) ELSE r[4]>>

\* C26: in Freeform mode a resize drag applied to a rectangle inside the
\* image bounds changes only the coordinates of the edges in the active
\* edge set; every other edge keeps its coordinate, and each active edge
\* ends at the pointer coordinate on its axis limited by the min_size
\* distance to the opposite edge and by the image bounds.
C26_FreeformResizeFrame ==
    [][\A p \in DragPoints :
          (/\ ResizeDrag(p[1], p[2])
           /\ aspect_ratio = None
           /\ forced_dimensions = None
           /\ Inside(rect, Geom))
          => /\ "left" \notin resize_edges => rect'[1] = rect[1]
             /\ "top" \notin resize_edges => rect'[2] = rect[2]
             /\ "right" \notin resize_edges => rect'[3] = rect[3]
             /\ "bottom" \notin resize_edges => rect'[4] = rect[4]
             /\ rect' = FreeformEdges(rect, resize_edges, p[1], p[2])]_vars

\* the bottom edge of the default rectangle (22,15)-(46,51) dragged up to
\* (30,40): only y2 changed
C26_Witness ==
    /\ drag_mode = "resize"
    /\ resize_edges = {"bottom"}
    /\ aspect_ratio = None /\ forced_dimensions = None
    /\ drag_start = <<30, 40>>
    /\ rect = <<R(22), R(15), R(46), R(40)>>

----------------------------------------------------------------------------
(* The aspect ratio on a degenerate rectangle.                             *)

\* A session in Freeform mode whose rectangle has lost its width or its
\* height.  A resize drag leaves such a rectangle when the rectangle
\* reaches more than min_size beyond the image: a rectangle forced to the
\* canvas width in a 91x66 canvas spans (-20, 71) around the image
\* (20, 71); back in Freeform, its right edge dragged to x = 0 stops at
\* x1 + min_size = -10 and the final clamp_rect(keep_size=False) clips
\* both edges to 20.  The 68x108 canvas does the same on the y axis.
ArMaxPointer == 2
ArMaxEdits == 2
ArMaxCommits == 1
ArMaxResizes == 1
ArMaxSteps == 3

ArViewports == {<<91, 66>>, <<68, 108>>}
ArRects == {<<20, 15, 20, 51>>, <<22, 10, 46, 10>>, <<25, 20, 25, 50>>,
            <<22, 40, 46, 40>>, <<22, 15, 46, 51>>}

InitAr ==
    \E pg \in Pages, vp \in ArViewports, ir \in ArRects :
        LET g == render_page(vp, pg)
            r == <<R(ir[1]), R(ir[2]), R(ir[3]), R(ir[4])>>
            f == update_fields_from_rect(r, g.scale, "in", "in")
        IN  /\ Inside(r, g)
            /\ interactive_mode
            /\ page = pg
            /\ winfo = vp
            /\ canvas_width = g.canvas_width
            /\ canvas_height = g.canvas_height
            /\ scale = g.scale
            /\ image_x0 = g.image_x0
            /\ image_y0 = g.image_y0
            /\ image_width = g.image_width
            /\ image_height = g.image_height
            /\ rect = r
            /\ drag_mode = "none"
            /\ resize_edges = {}
            /\ drag_start = None
            /\ aspect_ratio = None
            /\ forced_dimensions = None
            /\ mode_var = "Freeform"
            /\ ratio_var = f[1]
            /\ dim_w_var = f[2]
            /\ dim_h_var = f[3]
            /\ dim_w_unit = "in"
            /\ dim_h_unit = "in"
            /\ cursor = "arrow"
            /\ resize_job = 0
            /\ after_queue = {}
            /\ next_after = 1
            /\ crop_data = None
            /\ writes = 0
            /\ closed = FALSE
            /\ button1 = FALSE
            /\ pointer_left = ArMaxPointer
            /\ edits_left = ArMaxEdits
            /\ commits_left = ArMaxCommits
            /\ resizes_left = ArMaxResizes
            /\ steps_left = ArMaxSteps

SpecAr == InitAr /\ [][Next]_vars

Degenerate(r) == Width(r) = R(0) \/ Height(r) = R(0)

\* the rectangle has the ratio r and a positive width and height
ProperWithRatio(r0, r) ==
    /\ RGt(Width(r0), R(0))
    /\ RGt(Height(r0), R(0))
    /\ RDiv(Width(r0), Height(r0)) = r

\* C27: AspectRatio(r) applied to a rectangle of zero height or zero width
\* takes 1 unit for the zero dimension and yields a rectangle of positive
\* width and positive height with width / height = r.
C27_AspectRatioOnDegenerate ==
    [][(/\ Commit
        /\ aspect_ratio' # None
        /\ Degenerate(rect))
       => ProperWithRatio(rect', aspect_ratio')]_vars

\* what the code does: only a zero height is replaced by 1, and only a
\* rectangle that has a width gets the ratio
ZeroHeightAloneGetsRatio ==
    [][(/\ Commit
        /\ aspect_ratio' # None
        /\ Height(rect) = R(0)
        /\ RGt(Width(rect), R(0)))
       => ProperWithRatio(rect', aspect_ratio')]_vars

\* a rectangle of zero width collapses to a point
ZeroWidthCollapses ==
    [][(/\ Commit
        /\ aspect_ratio' # None
        /\ Width(rect) = R(0))
       => /\ Width(rect') = R(0)
          /\ Height(rect') = R(0)]_vars

----------------------------------------------------------------------------
(* The coalescing of viewport resize notifications.                        *)

\* at most one scheduled commit, and resize_job names it while the window
\* is open (the window's destruction drops what is scheduled)
OnePending ==
    /\ Cardinality(after_queue) <= 1
    /\ after_queue \subseteq {resize_job}
    /\ resize_job = 0 => after_queue = {}
    /\ (resize_job # 0 /\ ~closed) => after_queue = {resize_job}

\* a notification replaces the pending commit by a new one; the commit
\* renders the viewport of the last notification and leaves none pending
Rescheduled ==
    /\ (\E vp \in Viewports : on_window_resize(vp))
           => /\ resize_job' \notin after_queue
              /\ after_queue' = {resize_job'}
    /\ on_resize_commit
           => /\ after_queue' = {}
              /\ resize_job' = 0
              /\ canvas_width' = winfo[1]
              /\ canvas_height' = winfo[2]

\* the scheduled commit is the one on_resize_commit waits for: nothing but
\* the window's destruction keeps it from running
PendingCommitIsDue ==
    (after_queue # {} /\ ~closed) => (resize_job # 0 /\ resize_job \in after_queue)

\* C29: at any time at most one resize commit is pending; each new
\* notification cancels the pending one and schedules a new one, so after
\* a burst of notifications one commit is due, for the viewport of the
\* last notification, and after that commit none is pending.
C29_ResizeCoalesced ==
    /\ [](OnePending /\ PendingCommitIsDue)
    /\ [][Rescheduled]_vars

\* two notifications have been delivered and the commit after the last
\* one has run: nothing is pending
C29_Witness ==
    /\ resizes_left = MaxResizes - 2
    /\ next_after = 3
    /\ resize_job = 0
    /\ after_queue = {}
    /\ ~closed

----------------------------------------------------------------------------
(* The consistency of the gesture record.                                  *)

\* the anchor goes with a gesture, the edge set with a resize
GestureConsistent ==
    /\ drag_mode \in {"none", "move", "resize"}
    /\ drag_start # None <=> drag_mode \in {"move", "resize"}
    /\ resize_edges # {} <=> drag_mode = "resize"
    /\ resize_edges \subseteq {"left", "top", "right", "bottom"}

\* a drag with no gesture under way
IdleDrag(x, y) == drag_mode = "none" /\ on_mouse_drag(x, y)

\* C30: in every reachable state the anchor is set exactly when the drag
\* mode is Moving or Resizing and the edge set is set, with at least one
\* edge, exactly when the drag mode is Resizing; a drag event received in
\* state Idle changes neither the rectangle nor the gesture record.
C30_GestureConsistent ==
    /\ []GestureConsistent
    /\ [][\A p \in DragPoints :
             IdleDrag(p[1], p[2]) => UNCHANGED <<rect, gesture>>]_vars

\* the button went down outside the rectangle and the pointer was dragged:
\* no gesture, the default rectangle still in place
C30_Witness ==
    /\ button1
    /\ drag_mode = "none"
    /\ drag_start = None
    /\ resize_edges = {}
    /\ pointer_left = MaxPointer - 2
    /\ cursor = "cross"
    /\ rect = create_default_rect(Geom)

----------------------------------------------------------------------------
(* The emitted crop record.                                                *)

\* bottom_left is not beyond top_right
RecordWellFormed(c) == RLe(c[1], c[3]) /\ RLe(c[2], c[4])

\* the record lies on the page
RecordInsidePage(c) ==
    /\ RLe(R(0), c[1]) /\ RLe(c[3], R(page[1]))
    /\ RLe(R(0), c[2]) /\ RLe(c[4], R(page[2]))

\* C31: the crop record emitted on confirmation is a well-formed rectangle
\* inside the page: bottom_left.x <= top_right.x, bottom_left.y <=
\* top_right.y, 0 <= bottom_left.x, top_right.x <= page width,
\* 0 <= bottom_left.y and top_right.y <= page height.
C31_RecordInsidePage ==
    crop_data # None => (RecordWellFormed(crop_data) /\ RecordInsidePage(crop_data))

\* the two halves of the claim, each on its own
EmittedRecordWellFormed == crop_data # None => RecordWellFormed(crop_data)
EmittedRecordOnPage == crop_data # None => RecordInsidePage(crop_data)

\* what the conversion does keep: a rectangle that is not inverted and lies
\* inside the page image is emitted as a well-formed record inside the page
ProperRectangleEmittedInsidePage ==
    [][(/\ save_and_close
        /\ RLe(rect[1], rect[3]) /\ RLe(rect[2], rect[4])
        /\ Inside(rect, Geom))
       => (RecordWellFormed(crop_data') /\ RecordInsidePage(crop_data'))]_vars

====
